---- MODULE Spec2Model ----
(***************************************************************************)
(* Order-creation pipeline of the e-commerce order service:                *)
(*   domain.NewOrder            (factory, pure)                            *)
(*   PostgresOrderRepository    (transactional store)                      *)
(*   kafka.Producer             (event publisher)                          *)
(*   orderServiceImpl           (orchestrator: factory -> store -> publish)*)
(*   kafka.Consumer             (the consuming loop of the event topic)    *)
(*   api.Handler                (POST /orders in front of the orchestrator)*)
(*                                                                         *)
(* Modelling conventions                                                   *)
(*  - uuid.New() returns a value no other call returns; the model names   *)
(*    the value after the call that made it: the order of request r has   *)
(*    identifier r, the k-th item row written for request r has <<r, k>>.  *)
(*    0 is uuid.Nil.                                                       *)
(*  - money (float64 in Go) is an integer number of mills (1/1000 of the   *)
(*    currency unit), so that sub-cent amounts exist and the NUMERIC(10,2) *)
(*    columns of the schema are a real conversion.                         *)
(*  - a Go error is the chain of values errors.Unwrap walks through, the   *)
(*    outermost first; the nil error is the empty chain.                   *)
(***************************************************************************)
EXTENDS Integers, Sequences, FiniteSets, TLC

\* ------------------------------------------------------------------ bounds
NumReqs == 2
MaxItems == 2
MaxQty == 2
MaxPrice == 2
MaxClock == 1
MaxGets == 2
NumUpds == 2
MaxMsgs == 2
MaxFetchErrs == 2
MaxRestarts == 1
NumPartitions == 2
MaxPublishes == 3

\* ------------------------------------------------------- domain/errors.go
ErrInvalidOrderItemQuantity == "invalid order item quantity"
ErrInvalidOrderItemUnitPrice == "invalid order item unit price"
ErrNoOrderItems == "no order items provided"
ErrOrderNotFound == "order not found"
ErrInvalidOrderStatusTransition == "invalid order status transition"

NilErr == <<>>

\* errors.New(msg): a chain of one value
NewErr(msg) == <<msg>>

\* fmt.Errorf(msg + ": %w", err): err stays reachable through Unwrap
Wrap(msg, err) == <<msg>> \o err

\* fmt.Errorf(msg + ": %v", err): only the text is kept, the chain is cut
WrapText(msg, err) == <<msg>>

\* errors.Is(err, target)
ErrorsIs(err, target) == \E i \in DOMAIN err : err[i] = target

\* -------------------------------------------------------- domain/order.go
OrderStatusPending == "pending"
OrderStatusProcessing == "processing"
OrderStatusCompleted == "completed"
OrderStatusCancelled == "cancelled"
OrderStatusFailed == "failed"

UuidNil == 0
NilOrder == [nil |-> TRUE]

CustomerIDs == {"cust1"}
ProductIDs == {"prod1"}

Item(p, q, u) == [ProductID |-> p, Quantity |-> q, UnitPrice |-> u]

\* the per-item checks of the loop of NewOrder, unit price checked first
CheckItem_PriceFirst(item) ==
  IF item.UnitPrice < 0 THEN NewErr(ErrInvalidOrderItemUnitPrice)
  ELSE IF item.Quantity <= 0 THEN NewErr(ErrInvalidOrderItemQuantity)
  ELSE NilErr

\* the per-item checks of the loop of NewOrder
CheckItem(item) ==
  IF item.Quantity <= 0 THEN NewErr(ErrInvalidOrderItemQuantity)
  ELSE IF item.UnitPrice < 0 THEN NewErr(ErrInvalidOrderItemUnitPrice)
  ELSE NilErr

\* the line total without the quantity
LineTotal_NoQuantity(item) == item.UnitPrice

\* float64(item.Quantity) * item.UnitPrice
LineTotal(item) == item.Quantity * item.UnitPrice

\* the for loop of NewOrder from item i on, totalPrice accumulated so far:
\* the first item that fails a check ends the loop with its error
RECURSIVE NewOrderLoop(_, _, _)
NewOrderLoop(items, i, totalPrice) ==
  IF i > Len(items) THEN [err |-> NilErr, totalPrice |-> totalPrice]
  ELSE IF CheckItem(items[i]) # NilErr
         THEN [err |-> CheckItem(items[i]), totalPrice |-> totalPrice]
         ELSE NewOrderLoop(items, i + 1, totalPrice + LineTotal(items[i]))

\* NewOrder reading the clock once for each of the two timestamps
NewOrder_TwoClockReads(customerID, items, id, now) ==
  LET loop == NewOrderLoop(items, 1, 0) IN
  IF loop.err # NilErr THEN [order |-> NilOrder, err |-> loop.err]
  ELSE IF Len(items) = 0
         THEN [order |-> NilOrder, err |-> NewErr(ErrNoOrderItems)]
         ELSE [order |-> [ID |-> id, CustomerID |-> customerID,
                          Items |-> items,
                          Status |-> OrderStatusPending,
                          TotalPrice |-> loop.totalPrice,
                          CreatedAt |-> now, UpdatedAt |-> now + 1],
               err |-> NilErr]

\* NewOrder without the len(items) == 0 check
NewOrder_NoEmptyCheck(customerID, items, id, now) ==
  LET loop == NewOrderLoop(items, 1, 0) IN
  IF loop.err # NilErr THEN [order |-> NilOrder, err |-> loop.err]
  ELSE [order |-> [ID |-> id, CustomerID |-> customerID, Items |-> items,
                   Status |-> OrderStatusPending,
                   TotalPrice |-> loop.totalPrice,
                   CreatedAt |-> now, UpdatedAt |-> now],
        err |-> NilErr]

\* NewOrder going through the items from the last to the first
NewOrder_LastItemFirst(customerID, items, id, now) ==
  LET reversed == [i \in DOMAIN items |-> items[Len(items) + 1 - i]]
      loop == NewOrderLoop(reversed, 1, 0) IN
  IF loop.err # NilErr THEN [order |-> NilOrder, err |-> loop.err]
  ELSE IF Len(items) = 0
         THEN [order |-> NilOrder, err |-> NewErr(ErrNoOrderItems)]
         ELSE [order |-> [ID |-> id, CustomerID |-> customerID,
                          Items |-> items,
                          Status |-> OrderStatusPending,
                          TotalPrice |-> loop.totalPrice,
                          CreatedAt |-> now, UpdatedAt |-> now],
               err |-> NilErr]

\* NewOrder(customerID, items); id is the value of uuid.New() and now the
\* value of time.Now() at the call
NewOrder(customerID, items, id, now) ==
  LET loop == NewOrderLoop(items, 1, 0) IN
  IF loop.err # NilErr THEN [order |-> NilOrder, err |-> loop.err]
  ELSE IF Len(items) = 0
         THEN [order |-> NilOrder, err |-> NewErr(ErrNoOrderItems)]
         ELSE [order |-> [ID |-> id, CustomerID |-> customerID,
                          Items |-> items,
                          Status |-> OrderStatusPending,
                          TotalPrice |-> loop.totalPrice,
                          CreatedAt |-> now, UpdatedAt |-> now],
               err |-> NilErr]

\* ---------------------------------------------------------------- inputs
Quantities == (0 - MaxQty)..MaxQty
UnitPrices == (0 - MaxPrice)..MaxPrice
Items == [ProductID : ProductIDs, Quantity : Quantities, UnitPrice : UnitPrices]
ItemSeqs == UNION {[1..n -> Items] : n \in 0..MaxItems}

\* the item sequences the concurrent requests of the pipeline are called
\* with (amounts in mills): empty, zero quantity, negative unit price,
\* zero unit price, and two items, one with a sub-cent unit price
PipelineItemSeqs ==
  { <<>>,
    <<Item("prod1", 0, 20)>>,
    <<Item("prod1", 1, 0 - 10)>>,
    <<Item("prod1", 1, 0)>>,
    <<Item("prod1", 2, 20), Item("prod1", 1, 15)>> }

Reqs == 1..NumReqs

\* uuid.New() in NewOrder, called for request r
OrderUuid(r) == r

\* uuid.New() in NewOrder, called directly
DirectUuid == NumReqs + 1

\* uuid.New() in the item loop of the store's CreateOrder, k-th round of
\* the call of request r
ItemUuid(r, k) == <<r, k>>

\* ----------------------------------------------------------------- state
VARIABLES
  pc,            \* position of each CreateOrder request
  args,          \* the arguments of each request: customerID, items
  order,         \* the *domain.Order of each request (NilOrder before NewOrder)
  tx,            \* the rows written inside each request's open transaction
  itemIdx,       \* index of the next item of the insert loop
  repoErr,       \* the error returned by orderRepo.CreateOrder
  pubErr,        \* the error returned by kafkaProducer.PublishMessage
  result,        \* what CreateOrder returned: (order, err)
  dbOrders,      \* committed rows of table orders
  dbItems,       \* committed rows of table order_items
  topic,         \* messages written to the topic, in write order, each with
                 \* the partition the Writer sent it to
  clock,         \* the last value time.Now() returned
  repoCalls,     \* number of orderRepo.CreateOrder calls of each request
  publishCalls,  \* number of PublishMessage calls of each request
  ctxErr,        \* ctx.Err() of the context each request was called with
                 \* (nil while the context is not done)
  fnIn,          \* arguments of a direct NewOrder call
  fnOut,         \* its return values
  getter,        \* the client calling GetOrderByID: position, locals, results,
                 \* and what was the case when its call started
  updater,       \* the clients calling UpdateOrderStatus: position, arguments, error
  cpc,           \* position of the consumer inside StartConsuming
  cancelled,     \* ctx of StartConsuming is done
  cmsg,          \* offset of the message FetchMessage returned (0: none)
  fetchPos,      \* offset of the next message the reader fetches
  groupOffset,   \* committed position of the consumer group
  handled,       \* offsets whose event was unmarshalled and logged
  undecodable,   \* offsets whose payload json.Unmarshal rejected
  commitCalls,   \* offsets CommitMessages was called with, in call order
  fetchErrs,     \* number of fetch errors so far
  restarts,      \* number of times the consumer process was started again
  startOffset,   \* offset the reader of the running process started at
  deliveries,    \* the messages FetchMessage returned, in order: the run
                 \* (process number) and the offset of each, and whether
                 \* ctx was done when it was returned
  prodRes,       \* the errors direct calls of Producer.PublishMessage returned
  http           \* POST /orders of each request: the decoded payload, the
                 \* status code and the body of the answer (status 0: none yet)

reqVars == <<pc, args, order, tx, itemIdx, repoErr, pubErr, result, repoCalls, publishCalls, ctxErr>>
dbVars == <<dbOrders, dbItems>>
fnVars == <<fnIn, fnOut>>
consVars == <<cpc, cancelled, cmsg, fetchPos, groupOffset, handled, undecodable,
              commitCalls, fetchErrs, restarts, startOffset, deliveries>>
extVars == <<getter, updater, consVars, prodRes, http>>
vars == <<pc, args, order, tx, itemIdx, repoErr, pubErr, result, dbOrders, dbItems,
          topic, clock, repoCalls, publishCalls, ctxErr, fnIn, fnOut, getter, updater,
          cpc, cancelled, cmsg, fetchPos, groupOffset, handled, undecodable,
          commitCalls, fetchErrs, restarts, startOffset, deliveries, prodRes, http>>

NoArgs == [customerID |-> "", items |-> <<>>]
NoTx == [open |-> FALSE, orders |-> {}, items |-> {}]
NoResult == [returned |-> FALSE, order |-> NilOrder, err |-> NilErr]
Returned(o, e) == [returned |-> TRUE, order |-> o, err |-> e]

\* identifiers the callers of the store pass in
StoreIds == {1, 2}

\* the clients that call UpdateOrderStatus
Upds == 1..NumUpds

\* the database as a query sees it: the committed rows of both tables
Db == <<dbOrders, dbItems>>

\* no GetOrderByID call before this one
NoPrev == [valid |-> FALSE, id |-> UuidNil, res |-> NoResult, startDb |-> <<{}, {}>>]

\* the client of GetOrderByID before its first call
NoGet ==
  [pc |-> "idle", id |-> UuidNil, order |-> NilOrder, repoRes |-> NoResult,
   res |-> NoResult, calls |-> 0, startDb |-> <<{}, {}>>, endDb |-> <<{}, {}>>,
   after |-> {}, prev |-> NoPrev]

\* no POST /orders was received for the request
NoHttp ==
  [req |-> [malformed |-> FALSE, CustomerID |-> "", Items |-> <<>>],
   status |-> 0, body |-> [Error |-> ""]]

\* a client of UpdateOrderStatus before its call
NoUpd == [pc |-> "idle", id |-> UuidNil, status |-> "", err |-> NilErr]

\* errors of the database driver and of the broker client
DriverErr == "driver: bad connection"
PqUniqueViolation == "pq: duplicate key value violates unique constraint"
SqlErrNoRows == "sql: no rows in result set"
BrokerErr == "kafka: write failed"

\* context.Canceled, context.DeadlineExceeded and sql.ErrTxDone
ContextCanceled == "context canceled"
ContextDeadlineExceeded == "context deadline exceeded"
SqlErrTxDone == "sql: transaction has already been committed or rolled back"

\* ---------------------------------------------- migrations: column types
\* a value stored in a NUMERIC(10, 2) column: rounded to two decimals
\* (to a multiple of 10 mills), halves away from zero
Numeric2(x) ==
  IF x >= 0 THEN ((x + 5) \div 10) * 10
  ELSE 0 - ((((0 - x) + 5) \div 10) * 10)

\* the row of INSERT INTO orders
OrderRow(o) ==
  [id |-> o.ID, customer_id |-> o.CustomerID, status |-> o.Status,
   total_price |-> Numeric2(o.TotalPrice),
   created_at |-> o.CreatedAt, updated_at |-> o.UpdatedAt]

\* the row of INSERT INTO order_items
ItemRow(itemID, orderID, item) ==
  [id |-> itemID, order_id |-> orderID, product_id |-> item.ProductID,
   quantity |-> item.Quantity, unit_price |-> Numeric2(item.UnitPrice)]

\* ------------------------------------------------- service: event and key
\* uuid.UUID.String()
UuidString(id) == ToString(id)

\* OrderPlacedEvent built from the order
OrderPlacedEvent(o) ==
  [OrderID |-> o.ID, CustomerID |-> o.CustomerID,
   TotalPrice |-> o.TotalPrice, Status |-> o.Status]

\* json.Marshal(event): the object with the json tags as keys, the
\* identifiers in their string form
JsonMarshal(ev) ==
  [order_id |-> UuidString(ev.OrderID), customer_id |-> ev.CustomerID,
   total_price |-> ev.TotalPrice, status |-> ev.Status]

\* ------------------------------------------------------------------ Init
InitPipeline ==
  /\ pc = [r \in Reqs |-> "idle"]
  /\ args = [r \in Reqs |-> NoArgs]
  /\ order = [r \in Reqs |-> NilOrder]
  /\ tx = [r \in Reqs |-> NoTx]
  /\ itemIdx = [r \in Reqs |-> 0]
  /\ repoErr = [r \in Reqs |-> NilErr]
  /\ pubErr = [r \in Reqs |-> NilErr]
  /\ result = [r \in Reqs |-> NoResult]
  /\ dbOrders = {}
  /\ dbItems = {}
  /\ topic = <<>>
  /\ clock = 0
  /\ repoCalls = [r \in Reqs |-> 0]
  /\ publishCalls = [r \in Reqs |-> 0]
  /\ ctxErr = [r \in Reqs |-> NilErr]

\* no GetOrderByID and no UpdateOrderStatus call was made
InitClients ==
  /\ getter = NoGet
  /\ updater = [u \in Upds |-> NoUpd]

\* StartConsuming was not called
InitConsumer ==
  /\ cpc = "idle"
  /\ cancelled = FALSE
  /\ cmsg = 0
  /\ fetchPos = 1
  /\ groupOffset = 1
  /\ handled = {}
  /\ undecodable = {}
  /\ commitCalls = <<>>
  /\ fetchErrs = 0
  /\ restarts = 0
  /\ startOffset = 1
  /\ deliveries = <<>>
  /\ prodRes = <<>>
  /\ http = [r \in Reqs |-> NoHttp]

Init ==
  /\ InitPipeline
  /\ InitClients
  /\ InitConsumer
  /\ fnIn = [customerID |-> "cust1", items |-> <<>>]
  /\ fnOut = NoResult

\* ------------------------------------- service: orderServiceImpl.CreateOrder
\* CreateOrder up to the call of the store, with the error of NewOrder cut
\* from the chain
ServiceCreateOrder_CutChain(r) ==
  /\ pc[r] = "idle"
  /\ \E customerID \in CustomerIDs, items \in PipelineItemSeqs, now \in clock..MaxClock :
       LET res == NewOrder(customerID, items, OrderUuid(r), now) IN
       /\ args' = [args EXCEPT ![r] = [customerID |-> customerID, items |-> items]]
       /\ IF res.err # NilErr
            THEN /\ result' = [result EXCEPT ![r] = Returned(NilOrder,
                      WrapText("service: failed to create new order domain object", res.err))]
                 /\ pc' = [pc EXCEPT ![r] = "done"]
                 /\ UNCHANGED <<order, clock>>
            ELSE /\ order' = [order EXCEPT ![r] = res.order]
                 /\ clock' = now
                 /\ pc' = [pc EXCEPT ![r] = "begin"]
                 /\ UNCHANGED result
  /\ UNCHANGED <<tx, itemIdx, repoErr, pubErr, repoCalls, publishCalls, ctxErr>>
  /\ UNCHANGED <<dbVars, topic, fnVars, extVars>>

\* CreateOrder(ctx, customerID, items) up to the call of the store: the
\* order is built with NewOrder; a validation error is wrapped (%w) and
\* returned, otherwise the store is called next. uuid.New() and time.Now()
\* are only evaluated when every item passed.
ServiceCreateOrderWith(r, customerID, items) ==
  /\ \E now \in clock..MaxClock :
       LET res == NewOrder(customerID, items, OrderUuid(r), now) IN
       /\ args' = [args EXCEPT ![r] = [customerID |-> customerID, items |-> items]]
       /\ IF res.err # NilErr
            THEN /\ result' = [result EXCEPT ![r] = Returned(NilOrder,
                      Wrap("service: failed to create new order domain object", res.err))]
                 /\ pc' = [pc EXCEPT ![r] = "done"]
                 /\ UNCHANGED <<order, clock>>
            ELSE /\ order' = [order EXCEPT ![r] = res.order]
                 /\ clock' = now
                 /\ pc' = [pc EXCEPT ![r] = "begin"]
                 /\ UNCHANGED result
  /\ UNCHANGED <<tx, itemIdx, repoErr, pubErr, repoCalls, publishCalls, ctxErr>>
  /\ UNCHANGED <<dbVars, topic, fnVars, getter, updater, consVars, prodRes>>

\* CreateOrder is called by a client of the service
ServiceCreateOrder(r) ==
  /\ pc[r] = "idle"
  /\ \E customerID \in CustomerIDs, items \in PipelineItemSeqs :
       ServiceCreateOrderWith(r, customerID, items)
  /\ UNCHANGED http

\* ------------------------- repository: PostgresOrderRepository.CreateOrder
\* the store returns err to the service; the deferred tx.Rollback() drops
\* whatever the transaction wrote
RepoReturn(r, err) ==
  /\ repoErr' = [repoErr EXCEPT ![r] = err]
  /\ tx' = [tx EXCEPT ![r] = NoTx]
  /\ pc' = [pc EXCEPT ![r] = "returned"]

\* r.db.BeginTx(ctx, nil): with a context that is done it returns ctx.Err()
RepoBeginTx(r) ==
  /\ pc[r] = "begin"
  /\ repoCalls' = [repoCalls EXCEPT ![r] = @ + 1]
  /\ IF ctxErr[r] # NilErr
       THEN RepoReturn(r, Wrap("failed to begin transaction", ctxErr[r]))
       ELSE \E ok \in BOOLEAN :
              IF ok
                THEN /\ tx' = [tx EXCEPT ![r] = [open |-> TRUE, orders |-> {}, items |-> {}]]
                     /\ pc' = [pc EXCEPT ![r] = "insertOrder"]
                     /\ UNCHANGED repoErr
                ELSE RepoReturn(r, Wrap("failed to begin transaction", NewErr(DriverErr)))
  /\ UNCHANGED <<args, order, itemIdx, pubErr, result, publishCalls, ctxErr>>
  /\ UNCHANGED <<dbVars, topic, clock, fnVars, extVars>>

\* no unique index on the identifier: an INSERT never waits
InsertWaits_Never(r, id) == FALSE

\* another open transaction has inserted, and not yet committed or rolled
\* back, an order row with this identifier: the primary key index makes the
\* INSERT wait for the end of that transaction
InsertWaits(r, id) ==
  \E q \in Reqs \ {r} : tx[q].open /\ \E o \in tx[q].orders : o.id = id

\* INSERT INTO orders with no primary key to reject a stored identifier
RepoInsertOrder_NoPrimaryKey(r) ==
  /\ pc[r] = "insertOrder"
  /\ \E ok \in BOOLEAN :
       LET row == OrderRow(order[r])
       IN IF ~ok
            THEN RepoReturn(r, Wrap("failed to insert order", NewErr(DriverErr)))
                 /\ UNCHANGED itemIdx
          ELSE /\ tx' = [tx EXCEPT ![r].orders = {row}]
               /\ itemIdx' = [itemIdx EXCEPT ![r] = 1]
               /\ pc' = [pc EXCEPT ![r] = "insertItems"]
               /\ UNCHANGED repoErr
  /\ UNCHANGED <<args, order, pubErr, result, repoCalls, publishCalls, ctxErr>>
  /\ UNCHANGED <<dbVars, topic, clock, fnVars, extVars>>

\* INSERT INTO orders outside a transaction: the row is visible to other
\* connections as soon as it is written
RepoInsertOrder_AutoCommit(r) ==
  /\ pc[r] = "insertOrder"
  /\ \E ok \in BOOLEAN :
       LET row == OrderRow(order[r])
           duplicate == \E o \in dbOrders : o.id = row.id
       IN IF ~ok
            THEN RepoReturn(r, Wrap("failed to insert order", NewErr(DriverErr)))
                 /\ UNCHANGED <<itemIdx, dbVars>>
          ELSE /\ ~InsertWaits(r, row.id)
               /\ IF duplicate
                    THEN RepoReturn(r, Wrap("failed to insert order", NewErr(PqUniqueViolation)))
                         /\ UNCHANGED <<itemIdx, dbVars>>
                    ELSE /\ dbOrders' = dbOrders \cup {row}
                         /\ UNCHANGED <<dbItems, tx>>
                         /\ itemIdx' = [itemIdx EXCEPT ![r] = 1]
                         /\ pc' = [pc EXCEPT ![r] = "insertItems"]
                         /\ UNCHANGED repoErr
  /\ UNCHANGED <<args, order, pubErr, result, repoCalls, publishCalls, ctxErr>>
  /\ UNCHANGED <<topic, clock, fnVars, extVars>>

\* INSERT INTO orders inside the transaction, tx.ExecContext(ctx, ...): with
\* a context that is done it returns ctx.Err() (also when it was waiting);
\* otherwise the statement fails in the driver, or waits while another
\* transaction holds the identifier, or is rejected by the primary key when
\* a committed row has the identifier, or writes the row
RepoInsertOrder(r) ==
  /\ pc[r] = "insertOrder"
  /\ IF ctxErr[r] # NilErr
       THEN RepoReturn(r, Wrap("failed to insert order", ctxErr[r]))
            /\ UNCHANGED itemIdx
       ELSE \E ok \in BOOLEAN :
         LET row == OrderRow(order[r])
             duplicate == \E o \in dbOrders : o.id = row.id
         IN IF ~ok
              THEN RepoReturn(r, Wrap("failed to insert order", NewErr(DriverErr)))
                   /\ UNCHANGED itemIdx
            ELSE /\ ~InsertWaits(r, row.id)
                 /\ IF duplicate
                      THEN RepoReturn(r, Wrap("failed to insert order", NewErr(PqUniqueViolation)))
                           /\ UNCHANGED itemIdx
                      ELSE /\ tx' = [tx EXCEPT ![r].orders = {row}]
                           /\ itemIdx' = [itemIdx EXCEPT ![r] = 1]
                           /\ pc' = [pc EXCEPT ![r] = "insertItems"]
                           /\ UNCHANGED repoErr
  /\ UNCHANGED <<args, order, pubErr, result, repoCalls, publishCalls, ctxErr>>
  /\ UNCHANGED <<dbVars, topic, clock, fnVars, extVars>>

\* the item loop with statements that are not rolled back: when an insert
\* fails, what was written before stays
RepoInsertItem_NoRollback(r) ==
  /\ pc[r] = "insertItems"
  /\ itemIdx[r] <= Len(order[r].Items)
  /\ \E ok \in BOOLEAN :
       IF ok
         THEN /\ tx' = [tx EXCEPT ![r].items =
                     @ \cup {ItemRow(ItemUuid(r, itemIdx[r]), order[r].ID,
                               order[r].Items[itemIdx[r]])}]
              /\ itemIdx' = [itemIdx EXCEPT ![r] = @ + 1]
              /\ UNCHANGED <<pc, repoErr, dbVars>>
         ELSE /\ RepoReturn(r, Wrap("failed to insert order item", NewErr(DriverErr)))
              /\ dbOrders' = dbOrders \cup tx[r].orders
              /\ dbItems' = dbItems \cup tx[r].items
              /\ UNCHANGED itemIdx
  /\ UNCHANGED <<args, order, pubErr, result, repoCalls, publishCalls, ctxErr>>
  /\ UNCHANGED <<topic, clock, fnVars, extVars>>

\* one round of the item loop: uuid.New() for the item row, then
\* INSERT INTO order_items inside the transaction, tx.ExecContext(ctx, ...);
\* with a context that is done it returns ctx.Err()
RepoInsertItem(r) ==
  /\ pc[r] = "insertItems"
  /\ itemIdx[r] <= Len(order[r].Items)
  /\ IF ctxErr[r] # NilErr
       THEN /\ RepoReturn(r, Wrap("failed to insert order item", ctxErr[r]))
            /\ UNCHANGED itemIdx
       ELSE \E ok \in BOOLEAN :
         IF ok
           THEN /\ tx' = [tx EXCEPT ![r].items =
                       @ \cup {ItemRow(ItemUuid(r, itemIdx[r]), order[r].ID,
                                 order[r].Items[itemIdx[r]])}]
                /\ itemIdx' = [itemIdx EXCEPT ![r] = @ + 1]
                /\ UNCHANGED <<pc, repoErr>>
           ELSE /\ RepoReturn(r, Wrap("failed to insert order item", NewErr(DriverErr)))
                /\ UNCHANGED itemIdx
  /\ UNCHANGED <<args, order, pubErr, result, repoCalls, publishCalls, ctxErr>>
  /\ UNCHANGED <<dbVars, topic, clock, fnVars, extVars>>

\* tx.Commit() reporting success also when nothing was committed
RepoCommit_Lost(r) ==
  /\ pc[r] = "insertItems"
  /\ itemIdx[r] > Len(order[r].Items)
  /\ \E ok \in BOOLEAN :
       /\ IF ok
            THEN /\ dbOrders' = dbOrders \cup tx[r].orders
                 /\ dbItems' = dbItems \cup tx[r].items
            ELSE UNCHANGED dbVars
       /\ RepoReturn(r, NilErr)
  /\ UNCHANGED <<args, order, itemIdx, pubErr, result, repoCalls, publishCalls, ctxErr>>
  /\ UNCHANGED <<topic, clock, fnVars, extVars>>

\* tx.Commit() that makes only the order row visible
RepoCommit_OrderRowOnly(r) ==
  /\ pc[r] = "insertItems"
  /\ itemIdx[r] > Len(order[r].Items)
  /\ \E ok \in BOOLEAN :
       IF ok
         THEN /\ dbOrders' = dbOrders \cup tx[r].orders
              /\ UNCHANGED dbItems
              /\ RepoReturn(r, NilErr)
         ELSE /\ UNCHANGED dbVars
              /\ RepoReturn(r, NewErr(DriverErr))
  /\ UNCHANGED <<args, order, itemIdx, pubErr, result, repoCalls, publishCalls, ctxErr>>
  /\ UNCHANGED <<topic, clock, fnVars, extVars>>

\* tx.Commit() that commits without looking at the context
RepoCommit_NoCtxCheck(r) ==
  /\ pc[r] = "insertItems"
  /\ itemIdx[r] > Len(order[r].Items)
  /\ \E ok \in BOOLEAN :
       IF ok
         THEN /\ dbOrders' = dbOrders \cup tx[r].orders
              /\ dbItems' = dbItems \cup tx[r].items
              /\ RepoReturn(r, NilErr)
         ELSE /\ UNCHANGED dbVars
              /\ RepoReturn(r, NewErr(DriverErr))
  /\ UNCHANGED <<args, order, itemIdx, pubErr, result, repoCalls, publishCalls, ctxErr>>
  /\ UNCHANGED <<topic, clock, fnVars, extVars>>

\* return tx.Commit(): when the context of the transaction is done, the
\* transaction is rolled back and Commit returns ctx.Err(), or sql.ErrTxDone
\* if the rollback was there first; otherwise the rows of the transaction
\* become visible together, or the commit fails, nothing becomes visible and
\* its error is returned as it is
RepoCommit(r) ==
  /\ pc[r] = "insertItems"
  /\ itemIdx[r] > Len(order[r].Items)
  /\ IF ctxErr[r] # NilErr
       THEN /\ UNCHANGED dbVars
            /\ \E err \in {ctxErr[r], NewErr(SqlErrTxDone)} : RepoReturn(r, err)
       ELSE \E ok \in BOOLEAN :
              IF ok
                THEN /\ dbOrders' = dbOrders \cup tx[r].orders
                     /\ dbItems' = dbItems \cup tx[r].items
                     /\ RepoReturn(r, NilErr)
                ELSE /\ UNCHANGED dbVars
                     /\ RepoReturn(r, NewErr(DriverErr))
  /\ UNCHANGED <<args, order, itemIdx, pubErr, result, repoCalls, publishCalls, ctxErr>>
  /\ UNCHANGED <<topic, clock, fnVars, extVars>>

\* ------------------------------- service: CreateOrder after the store call
\* the check of the store's error left out
ServiceAfterPersist_IgnoreErr(r) ==
  /\ pc[r] = "returned"
  /\ pc' = [pc EXCEPT ![r] = "publish"]
  /\ UNCHANGED <<args, order, tx, itemIdx, repoErr, pubErr, result, repoCalls, publishCalls, ctxErr>>
  /\ UNCHANGED <<dbVars, topic, clock, fnVars, extVars>>

\* if err != nil after orderRepo.CreateOrder: return (nil, wrapped error);
\* otherwise go on to the event
ServiceAfterPersist(r) ==
  /\ pc[r] = "returned"
  /\ IF repoErr[r] # NilErr
       THEN /\ result' = [result EXCEPT ![r] = Returned(NilOrder,
                   Wrap("service: failed to persist order", repoErr[r]))]
            /\ pc' = [pc EXCEPT ![r] = "done"]
       ELSE /\ pc' = [pc EXCEPT ![r] = "publish"]
            /\ UNCHANGED result
  /\ UNCHANGED <<args, order, tx, itemIdx, repoErr, pubErr, repoCalls, publishCalls, ctxErr>>
  /\ UNCHANGED <<dbVars, topic, clock, fnVars, extVars>>

\* the partitions of the topic
Partitions == 1..NumPartitions

\* the counter kafka.LeastBytes keeps for partition p: what the Writer has
\* written to it (every message weighs one unit; a failed write is taken to
\* fail before the balancer has counted the message)
LeastBytesCounter(log, p) == Cardinality({i \in DOMAIN log : log[i].Partition = p})

\* Balancer of the Writer, &kafka.LeastBytes{}: the partition that has
\* received the least so far, the first of them on a tie; the key of the
\* message plays no part
Balance(log) ==
  CHOOSE p \in Partitions :
    /\ \A q \in Partitions : LeastBytesCounter(log, p) <= LeastBytesCounter(log, q)
    /\ \A q \in Partitions :
         LeastBytesCounter(log, q) = LeastBytesCounter(log, p) => p <= q

\* p.writer.WriteMessages(ctx, msg) taking the message: it is appended to
\* the topic in the partition the balancer chose
WriteMessages(log, msg) ==
  Append(log, [Key |-> msg.Key, Value |-> msg.Value, Partition |-> Balance(log)])

\* the context of the publish taken from the caller: kafkaCtx is done when
\* the context of the request is
KafkaCtxErrs_Caller(r) == {ctxErr[r]}

\* kafkaCtx, cancel := context.WithTimeout(context.Background(), 5 * time.Second):
\* what kafkaCtx.Err() can be while WriteMessages runs, nil or, when the
\* five seconds are over, context.DeadlineExceeded; the context of the
\* request plays no part
KafkaCtxErrs(r) == {NilErr, NewErr(ContextDeadlineExceeded)}

\* the kafka.Message of Producer.PublishMessage for the order of request r
OrderMessage(r) ==
  [Key |-> UuidString(order[r].ID),
   Value |-> JsonMarshal(OrderPlacedEvent(order[r]))]

\* the publish step returning the publish error to the caller
ServicePublish_FailCreate(r) ==
  /\ pc[r] = "publish"
  /\ publishCalls' = [publishCalls EXCEPT ![r] = @ + 1]
  /\ \E ok \in BOOLEAN :
       /\ IF ok
            THEN /\ topic' = WriteMessages(topic, OrderMessage(r))
                 /\ pubErr' = [pubErr EXCEPT ![r] = NilErr]
                 /\ result' = [result EXCEPT ![r] = Returned(order[r], NilErr)]
            ELSE /\ UNCHANGED topic
                 /\ pubErr' = [pubErr EXCEPT ![r] =
                       Wrap("failed to write message to Kafka", NewErr(BrokerErr))]
                 /\ result' = [result EXCEPT ![r] = Returned(NilOrder,
                       Wrap("failed to write message to Kafka", NewErr(BrokerErr)))]
  /\ pc' = [pc EXCEPT ![r] = "done"]
  /\ UNCHANGED <<args, order, tx, itemIdx, repoErr, repoCalls, ctxErr>>
  /\ UNCHANGED <<dbVars, clock, fnVars, extVars>>

\* the publish step writing the message twice
ServicePublish_Twice(r) ==
  /\ pc[r] = "publish"
  /\ publishCalls' = [publishCalls EXCEPT ![r] = @ + 2]
  /\ \E ok \in BOOLEAN :
       /\ IF ok
            THEN /\ topic' = WriteMessages(WriteMessages(topic, OrderMessage(r)), OrderMessage(r))
                 /\ pubErr' = [pubErr EXCEPT ![r] = NilErr]
            ELSE /\ UNCHANGED topic
                 /\ pubErr' = [pubErr EXCEPT ![r] =
                       Wrap("failed to write message to Kafka", NewErr(BrokerErr))]
  /\ result' = [result EXCEPT ![r] = Returned(order[r], NilErr)]
  /\ pc' = [pc EXCEPT ![r] = "done"]
  /\ UNCHANGED <<args, order, tx, itemIdx, repoErr, repoCalls, ctxErr>>
  /\ UNCHANGED <<dbVars, clock, fnVars, extVars>>

\* the publish step with a write that reports an error after the broker
\* took the message
ServicePublish_WrittenOnError(r) ==
  /\ pc[r] = "publish"
  /\ publishCalls' = [publishCalls EXCEPT ![r] = @ + 1]
  /\ \E ok \in BOOLEAN :
       /\ topic' = WriteMessages(topic, OrderMessage(r))
       /\ IF ok
            THEN pubErr' = [pubErr EXCEPT ![r] = NilErr]
            ELSE pubErr' = [pubErr EXCEPT ![r] =
                       Wrap("failed to write message to Kafka", NewErr(BrokerErr))]
  /\ result' = [result EXCEPT ![r] = Returned(order[r], NilErr)]
  /\ pc' = [pc EXCEPT ![r] = "done"]
  /\ UNCHANGED <<args, order, tx, itemIdx, repoErr, repoCalls, ctxErr>>
  /\ UNCHANGED <<dbVars, clock, fnVars, extVars>>

\* the event is marshalled and handed to Producer.PublishMessage once, with
\* kafkaCtx and the order identifier's string as key; WriteMessages returns
\* the error of a context that is done, and otherwise either appends the
\* message to the topic, or fails; the wrapped error is only logged.
\* CreateOrder returns (order, nil) in all cases.
ServicePublish(r) ==
  /\ pc[r] = "publish"
  /\ publishCalls' = [publishCalls EXCEPT ![r] = @ + 1]
  /\ \E kerr \in KafkaCtxErrs(r), ok \in BOOLEAN :
       /\ IF kerr # NilErr
            THEN /\ ~ok
                 /\ UNCHANGED topic
                 /\ pubErr' = [pubErr EXCEPT ![r] =
                       Wrap("failed to write message to Kafka", kerr)]
          ELSE IF ok
            THEN /\ topic' = WriteMessages(topic, OrderMessage(r))
                 /\ pubErr' = [pubErr EXCEPT ![r] = NilErr]
            ELSE /\ UNCHANGED topic
                 /\ pubErr' = [pubErr EXCEPT ![r] =
                       Wrap("failed to write message to Kafka", NewErr(BrokerErr))]
  /\ result' = [result EXCEPT ![r] = Returned(order[r], NilErr)]
  /\ pc' = [pc EXCEPT ![r] = "done"]
  /\ UNCHANGED <<args, order, tx, itemIdx, repoErr, repoCalls, ctxErr>>
  /\ UNCHANGED <<dbVars, clock, fnVars, extVars>>

\* ------------------------------------------------------------------ Next
Next ==
  \E r \in Reqs :
    \/ ServiceCreateOrder(r)
    \/ RepoBeginTx(r)
    \/ RepoInsertOrder(r)
    \/ RepoInsertItem(r)
    \/ RepoCommit(r)
    \/ ServiceAfterPersist(r)
    \/ ServicePublish(r)

Spec == Init /\ [][Next]_vars

\* ------------------------- the pipeline under a context that may end
\* the context CreateOrder was called with is done while the call is
\* running: the caller cancelled it, or its deadline elapsed
ContextDone(r) ==
  /\ pc[r] \in {"begin", "insertOrder", "insertItems", "returned", "publish"}
  /\ ctxErr[r] = NilErr
  /\ \E err \in {ContextCanceled, ContextDeadlineExceeded} :
       ctxErr' = [ctxErr EXCEPT ![r] = NewErr(err)]
  /\ UNCHANGED <<pc, args, order, tx, itemIdx, repoErr, pubErr, result, repoCalls, publishCalls>>
  /\ UNCHANGED <<dbVars, topic, clock, fnVars, extVars>>

\* the items every request of this specification is called with
DeadlineItems == <<Item("prod1", 2, 20), Item("prod1", 1, 15)>>

\* every request has called CreateOrder of the service with a context that
\* is not done, NewOrder has made its order, and the store is called next
InitDeadline ==
  /\ pc = [r \in Reqs |-> "begin"]
  /\ args = [r \in Reqs |-> [customerID |-> "cust1", items |-> DeadlineItems]]
  /\ order = [r \in Reqs |-> NewOrder("cust1", DeadlineItems, OrderUuid(r), 0).order]
  /\ tx = [r \in Reqs |-> NoTx]
  /\ itemIdx = [r \in Reqs |-> 0]
  /\ repoErr = [r \in Reqs |-> NilErr]
  /\ pubErr = [r \in Reqs |-> NilErr]
  /\ result = [r \in Reqs |-> NoResult]
  /\ repoCalls = [r \in Reqs |-> 0]
  /\ publishCalls = [r \in Reqs |-> 0]
  /\ ctxErr = [r \in Reqs |-> NilErr]
  /\ dbOrders = {}
  /\ dbItems = {}
  /\ topic = <<>>
  /\ clock = 0
  /\ InitClients
  /\ InitConsumer
  /\ fnIn = [customerID |-> "cust1", items |-> <<>>]
  /\ fnOut = NoResult

NextDeadline ==
  \E r \in Reqs :
    \/ ContextDone(r)
    \/ RepoBeginTx(r)
    \/ RepoInsertOrder(r)
    \/ RepoInsertItem(r)
    \/ RepoCommit(r)
    \/ ServiceAfterPersist(r)
    \/ ServicePublish(r)

SpecDeadline == InitDeadline /\ [][NextDeadline]_vars

\* ------------------------------------------- NewOrder called on its own
InitNewOrder ==
  /\ InitPipeline
  /\ InitClients
  /\ InitConsumer
  /\ fnIn \in [customerID : CustomerIDs, items : ItemSeqs]
  /\ fnOut = NoResult

\* order, err := domain.NewOrder(customerID, items)
CallNewOrder ==
  /\ ~fnOut.returned
  /\ \E now \in clock..MaxClock :
       LET res == NewOrder(fnIn.customerID, fnIn.items, DirectUuid, now) IN
       /\ fnOut' = Returned(res.order, res.err)
       /\ IF res.err = NilErr THEN clock' = now ELSE UNCHANGED clock
  /\ UNCHANGED <<reqVars, dbVars, topic, fnIn, extVars>>

NextNewOrder == CallNewOrder

SpecNewOrder == InitNewOrder /\ [][NextNewOrder]_vars

\* ========================================== the store called on its own
\* the item sequences the callers of the store create orders with (amounts
\* in mills): one item of one cent, and two items, one with a sub-cent
\* unit price
StoreItemSeqs ==
  { <<Item("prod1", 1, 10)>>,
    <<Item("prod1", 2, 20), Item("prod1", 1, 15)>> }

\* the orders handed to the store's CreateOrder: built by NewOrder, the
\* identifier set by the caller
StoreOrders ==
  { NewOrder(c, items, id, 0).order :
      c \in CustomerIDs, items \in StoreItemSeqs, id \in StoreIds }

\* the orders caller r may pass: callers with an odd number create
\* one-item orders, the others two-item orders
StoreOrdersOf(r) ==
  {o \in StoreOrders : Len(o.Items) = (IF r % 2 = 1 THEN 1 ELSE 2)}

\* no CreateOrder request of the service is in progress
InitRequests ==
  /\ pc = [r \in Reqs |-> "idle"]
  /\ args = [r \in Reqs |-> NoArgs]
  /\ order = [r \in Reqs |-> NilOrder]
  /\ tx = [r \in Reqs |-> NoTx]
  /\ itemIdx = [r \in Reqs |-> 0]
  /\ repoErr = [r \in Reqs |-> NilErr]
  /\ pubErr = [r \in Reqs |-> NilErr]
  /\ result = [r \in Reqs |-> NoResult]
  /\ repoCalls = [r \in Reqs |-> 0]
  /\ publishCalls = [r \in Reqs |-> 0]
  /\ ctxErr = [r \in Reqs |-> NilErr]

\* the concurrent callers are about to call repo.CreateOrder, each with an
\* order of its own; two callers may pass the same identifier
InitStore ==
  /\ pc = [r \in Reqs |-> "begin"]
  /\ args = [r \in Reqs |-> NoArgs]
  /\ order \in {f \in [Reqs -> StoreOrders] : \A r \in Reqs : f[r] \in StoreOrdersOf(r)}
  /\ tx = [r \in Reqs |-> NoTx]
  /\ itemIdx = [r \in Reqs |-> 0]
  /\ repoErr = [r \in Reqs |-> NilErr]
  /\ pubErr = [r \in Reqs |-> NilErr]
  /\ result = [r \in Reqs |-> NoResult]
  /\ dbOrders = {}
  /\ dbItems = {}
  /\ topic = <<>>
  /\ clock = 0
  /\ repoCalls = [r \in Reqs |-> 0]
  /\ publishCalls = [r \in Reqs |-> 0]
  /\ ctxErr = [r \in Reqs |-> NilErr]
  /\ InitClients
  /\ InitConsumer
  /\ fnIn = [customerID |-> "cust1", items |-> <<>>]
  /\ fnOut = NoResult

\* ------------------------ repository: PostgresOrderRepository.GetOrderByID
\* Scan of the order row into a domain.Order; the items are read later
ScanOrder(row) ==
  [ID |-> row.id, CustomerID |-> row.customer_id, Items |-> <<>>,
   Status |-> row.status, TotalPrice |-> row.total_price,
   CreatedAt |-> row.created_at, UpdatedAt |-> row.updated_at]

\* rows.Scan(&item.ProductID, &item.Quantity, &item.UnitPrice)
ScanItem(row) == Item(row.product_id, row.quantity, row.unit_price)

\* the orders in which a SELECT without ORDER BY may return the rows S
RowOrders(S) ==
  {s \in [1..Cardinality(S) -> S] : \A x \in S : \E i \in DOMAIN s : s[i] = x}

\* GetOrderByID of the service wrapping every error of the store with %v
ServiceGetOrderByID_CutChain(o, err) ==
  IF err # NilErr THEN Returned(NilOrder, WrapText("failed to get order", err))
  ELSE Returned(o, NilErr)

\* service: orderServiceImpl.GetOrderByID after the store returned (o, err):
\* ErrOrderNotFound is passed on as it is, any other error is wrapped (%w),
\* and no order is returned with an error
ServiceGetOrderByID(o, err) ==
  IF err # NilErr
    THEN IF ErrorsIs(err, ErrOrderNotFound)
           THEN Returned(NilOrder, err)
           ELSE Returned(NilOrder, Wrap("failed to get order", err))
    ELSE Returned(o, NilErr)

\* the store returns (o, err) to the service and the service returns to
\* its caller
GetReturn(g, o, err) ==
  [g EXCEPT !.pc = "done", !.order = NilOrder,
            !.repoRes = Returned(o, err),
            !.res = ServiceGetOrderByID(o, err),
            !.calls = @ + 1,
            !.endDb = Db]

\* the first query with sql.ErrNoRows reported like any other error
GetQueryOrder_NoRowsGeneric ==
  /\ getter.pc \in {"idle", "done"}
  /\ getter.calls < MaxGets
  /\ \E id \in StoreIds, ok \in BOOLEAN :
       LET rows == {o \in dbOrders : o.id = id}
           started == [getter EXCEPT !.id = id, !.startDb = Db,
                         !.after = {r \in Reqs : pc[r] = "returned"},
                         !.prev = [valid |-> getter.calls > 0, id |-> getter.id,
                                   res |-> getter.repoRes, startDb |-> getter.startDb]]
       IN IF ~ok
            THEN getter' = GetReturn(started, NilOrder,
                             Wrap("failed to get order by ID", NewErr(DriverErr)))
          ELSE IF rows = {}
            THEN getter' = GetReturn(started, NilOrder,
                             Wrap("failed to get order by ID", NewErr(SqlErrNoRows)))
            ELSE getter' = [started EXCEPT !.pc = "queryItems",
                              !.order = ScanOrder(CHOOSE o \in rows : TRUE)]
  /\ UNCHANGED <<reqVars, dbVars, topic, clock, fnVars, updater, consVars, prodRes, http>>

\* GetOrderByID is called with id; QueryRowContext(...).Scan(...) of the
\* order row: the query fails, or finds no row (sql.ErrNoRows becomes
\* ErrOrderNotFound), or fills the order
GetQueryOrder ==
  /\ getter.pc \in {"idle", "done"}
  /\ getter.calls < MaxGets
  /\ \E id \in StoreIds, ok \in BOOLEAN :
       LET rows == {o \in dbOrders : o.id = id}
           started == [getter EXCEPT !.id = id, !.startDb = Db,
                         !.after = {r \in Reqs : pc[r] = "returned"},
                         !.prev = [valid |-> getter.calls > 0, id |-> getter.id,
                                   res |-> getter.repoRes, startDb |-> getter.startDb]]
       IN IF ~ok
            THEN getter' = GetReturn(started, NilOrder,
                             Wrap("failed to get order by ID", NewErr(DriverErr)))
          ELSE IF rows = {}
            THEN getter' = GetReturn(started, NilOrder, NewErr(ErrOrderNotFound))
          ELSE getter' = [started EXCEPT !.pc = "queryItems",
                            !.order = ScanOrder(CHOOSE o \in rows : TRUE)]
  /\ UNCHANGED <<reqVars, dbVars, topic, clock, fnVars, updater, consVars, prodRes, http>>

\* the second query taking the item rows out of the table as it reads them
GetQueryItems_Consuming ==
  /\ getter.pc = "queryItems"
  /\ \E fault \in {"none", "query", "scan", "rows"} :
       LET rows == {it \in dbItems : it.order_id = getter.id} IN
       IF fault = "query"
         THEN /\ getter' = GetReturn(getter, NilOrder,
                             Wrap("failed to get order items", NewErr(DriverErr)))
              /\ UNCHANGED dbVars
       ELSE IF fault = "scan"
         THEN /\ rows # {}
              /\ getter' = GetReturn(getter, NilOrder,
                             Wrap("failed to scan order item", NewErr(DriverErr)))
              /\ UNCHANGED dbVars
       ELSE IF fault = "rows"
         THEN /\ getter' = GetReturn(getter, NilOrder,
                             Wrap("error iterating over order items", NewErr(DriverErr)))
              /\ UNCHANGED dbVars
       ELSE \E s \in RowOrders(rows) :
              /\ dbItems' = dbItems \ rows
              /\ UNCHANGED dbOrders
              /\ getter' = [GetReturn(getter,
                               [getter.order EXCEPT !.Items = [i \in DOMAIN s |-> ScanItem(s[i])]],
                               NilErr) EXCEPT !.endDb = <<dbOrders, dbItems \ rows>>]
  /\ UNCHANGED <<reqVars, topic, clock, fnVars, updater, consVars, prodRes, http>>

\* the second query, SELECT ... FROM order_items WHERE order_id = $1 with
\* no ORDER BY: the query fails, or scanning a row fails, or the iteration
\* fails, or the items are the visible rows of the order in the sequence
\* the database returned them
GetQueryItems ==
  /\ getter.pc = "queryItems"
  /\ \E fault \in {"none", "query", "scan", "rows"} :
       LET rows == {it \in dbItems : it.order_id = getter.id} IN
       IF fault = "query"
         THEN getter' = GetReturn(getter, NilOrder,
                          Wrap("failed to get order items", NewErr(DriverErr)))
       ELSE IF fault = "scan"
         THEN /\ rows # {}
              /\ getter' = GetReturn(getter, NilOrder,
                             Wrap("failed to scan order item", NewErr(DriverErr)))
       ELSE IF fault = "rows"
         THEN getter' = GetReturn(getter, NilOrder,
                          Wrap("error iterating over order items", NewErr(DriverErr)))
       ELSE \E s \in RowOrders(rows) :
              getter' = GetReturn(getter,
                          [getter.order EXCEPT !.Items = [i \in DOMAIN s |-> ScanItem(s[i])]],
                          NilErr)
  /\ UNCHANGED <<reqVars, dbVars, topic, clock, fnVars, updater, consVars, prodRes, http>>

NextStore ==
  \/ \E r \in Reqs :
       \/ RepoBeginTx(r)
       \/ RepoInsertOrder(r)
       \/ RepoInsertItem(r)
       \/ RepoCommit(r)
  \/ GetQueryOrder
  \/ GetQueryItems

SpecStore == InitStore /\ [][NextStore]_vars

\* ------------------- repository: PostgresOrderRepository.UpdateOrderStatus
OrderStatuses ==
  {OrderStatusPending, OrderStatusProcessing, OrderStatusCompleted,
   OrderStatusCancelled, OrderStatusFailed}

\* the item rows a committed create of order o by request r left
CommittedItems(r, o) ==
  {ItemRow(ItemUuid(r, k), o.ID, o.Items[k]) : k \in DOMAIN o.Items}

\* the store holds one order, committed by an earlier create of request 1;
\* no create is in progress and no update was called yet
InitUpdate ==
  /\ InitRequests
  /\ \E o \in StoreOrders :
       /\ o.ID = 1
       /\ dbOrders = {OrderRow(o)}
       /\ dbItems = CommittedItems(1, o)
  /\ topic = <<>>
  /\ clock = 0
  /\ InitClients
  /\ InitConsumer
  /\ fnIn = [customerID |-> "cust1", items |-> <<>>]
  /\ fnOut = NoResult

\* UpdateOrderStatus with an UPDATE that sets the status only
UpdateOrderStatus_StatusOnly(u) ==
  /\ updater[u].pc = "idle"
  /\ \E id \in StoreIds, status \in OrderStatuses, now \in clock..MaxClock,
        fault \in {"none", "exec", "rowsAffected"} :
       LET hit == {o \in dbOrders : o.id = id}
           err == IF fault = "exec"
                    THEN Wrap("failed to update order status", NewErr(DriverErr))
                  ELSE IF fault = "rowsAffected"
                    THEN Wrap("failed to get rows affected", NewErr(DriverErr))
                  ELSE IF Cardinality(hit) = 0
                    THEN NewErr(ErrOrderNotFound)
                  ELSE NilErr
       IN /\ clock' = now
          /\ IF fault = "exec"
               THEN UNCHANGED dbOrders
               ELSE dbOrders' = (dbOrders \ hit) \cup
                      {[o EXCEPT !.status = status] : o \in hit}
          /\ updater' = [updater EXCEPT ![u] =
                           [pc |-> "done", id |-> id, status |-> status, err |-> err]]
  /\ UNCHANGED <<reqVars, dbItems, topic, fnVars, getter, consVars, prodRes, http>>

\* UpdateOrderStatus refusing to leave the statuses completed, cancelled and
\* failed
UpdateOrderStatus_Validating(u) ==
  /\ updater[u].pc = "idle"
  /\ \E id \in StoreIds, status \in OrderStatuses, now \in clock..MaxClock,
        fault \in {"none", "exec", "rowsAffected"} :
       LET final == {OrderStatusCompleted, OrderStatusCancelled, OrderStatusFailed}
           found == {o \in dbOrders : o.id = id}
           hit == {o \in found : o.status \notin final}
           err == IF fault = "exec"
                    THEN Wrap("failed to update order status", NewErr(DriverErr))
                  ELSE IF fault = "rowsAffected"
                    THEN Wrap("failed to get rows affected", NewErr(DriverErr))
                  ELSE IF Cardinality(found) = 0
                    THEN NewErr(ErrOrderNotFound)
                  ELSE IF Cardinality(hit) = 0
                    THEN NewErr(ErrInvalidOrderStatusTransition)
                  ELSE NilErr
       IN /\ clock' = now
          /\ IF fault = "exec"
               THEN UNCHANGED dbOrders
               ELSE dbOrders' = (dbOrders \ hit) \cup
                      {[o EXCEPT !.status = status, !.updated_at = now] : o \in hit}
          /\ updater' = [updater EXCEPT ![u] =
                           [pc |-> "done", id |-> id, status |-> status, err |-> err]]
  /\ UNCHANGED <<reqVars, dbItems, topic, fnVars, getter, consVars, prodRes, http>>

\* UpdateOrderStatus with an UPDATE that only writes to an order that is
\* still pending (WHERE id = $3 AND status = 'pending')
UpdateOrderStatus_FirstWins(u) ==
  /\ updater[u].pc = "idle"
  /\ \E id \in StoreIds, status \in OrderStatuses, now \in clock..MaxClock,
        fault \in {"none", "exec", "rowsAffected"} :
       LET hit == {o \in dbOrders : o.id = id /\ o.status = OrderStatusPending}
           err == IF fault = "exec"
                    THEN Wrap("failed to update order status", NewErr(DriverErr))
                  ELSE IF fault = "rowsAffected"
                    THEN Wrap("failed to get rows affected", NewErr(DriverErr))
                  ELSE IF Cardinality(hit) = 0
                    THEN NewErr(ErrOrderNotFound)
                  ELSE NilErr
       IN /\ clock' = now
          /\ IF fault = "exec"
               THEN UNCHANGED dbOrders
               ELSE dbOrders' = (dbOrders \ hit) \cup
                      {[o EXCEPT !.status = status, !.updated_at = now] : o \in hit}
          /\ updater' = [updater EXCEPT ![u] =
                           [pc |-> "done", id |-> id, status |-> status, err |-> err]]
  /\ UNCHANGED <<reqVars, dbItems, topic, fnVars, getter, consVars, prodRes, http>>

\* UpdateOrderStatus with an UPDATE that has no WHERE clause
UpdateOrderStatus_AllRows(u) ==
  /\ updater[u].pc = "idle"
  /\ \E id \in StoreIds, status \in OrderStatuses, now \in clock..MaxClock,
        fault \in {"none", "exec", "rowsAffected"} :
       LET hit == {o \in dbOrders : o.id = id}
           err == IF fault = "exec"
                    THEN Wrap("failed to update order status", NewErr(DriverErr))
                  ELSE IF fault = "rowsAffected"
                    THEN Wrap("failed to get rows affected", NewErr(DriverErr))
                  ELSE IF Cardinality(hit) = 0
                    THEN NewErr(ErrOrderNotFound)
                  ELSE NilErr
       IN /\ clock' = now
          /\ IF fault = "exec"
               THEN UNCHANGED dbOrders
               ELSE dbOrders' =
                      {[o EXCEPT !.status = status, !.updated_at = now] : o \in dbOrders}
          /\ updater' = [updater EXCEPT ![u] =
                           [pc |-> "done", id |-> id, status |-> status, err |-> err]]
  /\ UNCHANGED <<reqVars, dbItems, topic, fnVars, getter, consVars, prodRes, http>>

\* UpdateOrderStatus(ctx, id, status): one UPDATE statement, committed on
\* its own, sets status and updated_at of the rows with the identifier
\* (time.Now() as argument, the trigger of the table sets NOW() again).
\* ExecContext fails and nothing is written; or RowsAffected fails after
\* the statement ran; or no row was affected and ErrOrderNotFound is
\* returned; or nil is returned.
UpdateOrderStatus(u) ==
  /\ updater[u].pc = "idle"
  /\ \E id \in StoreIds, status \in OrderStatuses, now \in clock..MaxClock,
        fault \in {"none", "exec", "rowsAffected"} :
       LET hit == {o \in dbOrders : o.id = id}
           err == IF fault = "exec"
                    THEN Wrap("failed to update order status", NewErr(DriverErr))
                  ELSE IF fault = "rowsAffected"
                    THEN Wrap("failed to get rows affected", NewErr(DriverErr))
                  ELSE IF Cardinality(hit) = 0
                    THEN NewErr(ErrOrderNotFound)
                  ELSE NilErr
       IN /\ clock' = now
          /\ IF fault = "exec"
               THEN UNCHANGED dbOrders
               ELSE dbOrders' = (dbOrders \ hit) \cup
                      {[o EXCEPT !.status = status, !.updated_at = now] : o \in hit}
          /\ updater' = [updater EXCEPT ![u] =
                           [pc |-> "done", id |-> id, status |-> status, err |-> err]]
  /\ UNCHANGED <<reqVars, dbItems, topic, fnVars, getter, consVars, prodRes, http>>

NextUpdate == \E u \in Upds : UpdateOrderStatus(u)

SpecUpdate == InitUpdate /\ [][NextUpdate]_vars

\* ------------------------------- the store: updates next to other creates
\* the client whose UpdateOrderStatus call runs next to the creates
FrameUpdater == 1

\* the store holds one order, committed by the create of request 1, which
\* has returned; the other callers are about to call repo.CreateOrder, each
\* with an order of its own, and no update was called yet
InitFrame ==
  /\ \E o \in StoreOrders :
       /\ o.ID = 1
       /\ dbOrders = {OrderRow(o)}
       /\ dbItems = CommittedItems(1, o)
       /\ order \in {f \in [Reqs -> StoreOrders] :
                       /\ f[1] = o
                       /\ \A r \in Reqs \ {1} : f[r] \in StoreOrdersOf(r)}
  /\ pc = [r \in Reqs |-> IF r = 1 THEN "returned" ELSE "begin"]
  /\ args = [r \in Reqs |-> NoArgs]
  /\ tx = [r \in Reqs |-> NoTx]
  /\ itemIdx = [r \in Reqs |-> 0]
  /\ repoErr = [r \in Reqs |-> NilErr]
  /\ pubErr = [r \in Reqs |-> NilErr]
  /\ result = [r \in Reqs |-> NoResult]
  /\ repoCalls = [r \in Reqs |-> IF r = 1 THEN 1 ELSE 0]
  /\ publishCalls = [r \in Reqs |-> 0]
  /\ ctxErr = [r \in Reqs |-> NilErr]
  /\ topic = <<>>
  /\ clock = 0
  /\ InitClients
  /\ InitConsumer
  /\ fnIn = [customerID |-> "cust1", items |-> <<>>]
  /\ fnOut = NoResult

NextFrame ==
  \/ \E r \in Reqs :
       \/ RepoBeginTx(r)
       \/ RepoInsertOrder(r)
       \/ RepoInsertItem(r)
       \/ RepoCommit(r)
  \/ UpdateOrderStatus(FrameUpdater)

SpecFrame == InitFrame /\ [][NextFrame]_vars

\* ============================================== kafka: Consumer (part_004)
\* a payload that is not JSON
MalformedValue == [raw |-> "not json"]

JsonSyntaxErr == "invalid character 'o' in literal null (expecting 'u')"

\* the keys of the JSON object of an OrderPlacedEvent
EventKeys == {"order_id", "customer_id", "total_price", "status"}

\* uuid.Parse, as json.Unmarshal applies it to the order_id string
UuidParse(s) == CHOOSE id \in 0..(NumReqs + 1) : UuidString(id) = s

\* json.Unmarshal(msg.Value, &event): the event of a payload that is the
\* JSON object of an OrderPlacedEvent, an error for anything else
JsonUnmarshal(value) ==
  IF DOMAIN value = EventKeys /\ \E id \in 0..(NumReqs + 1) : UuidString(id) = value.order_id
    THEN [event |-> [OrderID |-> UuidParse(value.order_id),
                     CustomerID |-> value.customer_id,
                     TotalPrice |-> value.total_price,
                     Status |-> value.status],
          err |-> NilErr]
    ELSE [event |-> [OrderID |-> UuidNil, CustomerID |-> "", TotalPrice |-> 0,
                     Status |-> ""],
          err |-> NewErr(JsonSyntaxErr)]

\* the messages found on the partition the reader is assigned: the event of
\* a placed order as the producer writes it, and a message with a malformed
\* payload
TopicMessages ==
  LET o == NewOrder("cust1", <<Item("prod1", 1, 10)>>, 1, 0).order IN
  { [Key |-> UuidString(o.ID), Value |-> JsonMarshal(OrderPlacedEvent(o)),
     Partition |-> 1],
    [Key |-> "k", Value |-> MalformedValue, Partition |-> 1] }

\* the contents of the topic: up to MaxMsgs messages, in offset order
TopicContents == UNION {[1..n -> TopicMessages] : n \in 0..MaxMsgs}

\* the consumer process starts on a topic that holds some messages, none
\* of them committed by the group; the order service is idle
InitConsuming ==
  /\ InitRequests
  /\ dbOrders = {}
  /\ dbItems = {}
  /\ topic \in TopicContents
  /\ clock = 0
  /\ InitClients
  /\ InitConsumer
  /\ fnIn = [customerID |-> "cust1", items |-> <<>>]
  /\ fnOut = NoResult

\* go orderPlacedConsumer.StartConsuming(ctx): the loop is entered
ConsumerStart ==
  /\ cpc = "idle"
  /\ cpc' = "select"
  /\ UNCHANGED <<cancelled, cmsg, fetchPos, groupOffset, handled, undecodable,
                 commitCalls, fetchErrs, restarts, startOffset, deliveries>>
  /\ UNCHANGED <<reqVars, dbVars, topic, clock, fnVars, getter, updater, prodRes, http>>

\* the context of StartConsuming is cancelled from outside
Cancel ==
  /\ ~cancelled
  /\ cancelled' = TRUE
  /\ UNCHANGED <<cpc, cmsg, fetchPos, groupOffset, handled, undecodable,
                 commitCalls, fetchErrs, restarts, startOffset, deliveries>>
  /\ UNCHANGED <<reqVars, dbVars, topic, clock, fnVars, getter, updater, prodRes, http>>

\* select at the head of the loop: case <-ctx.Done() logs the shutdown and
\* returns (position "stopped"), default goes on to the fetch
ConsumerSelect ==
  /\ cpc = "select"
  /\ cpc' = IF cancelled THEN "stopped" ELSE "fetch"
  /\ UNCHANGED <<cancelled, cmsg, fetchPos, groupOffset, handled, undecodable,
                 commitCalls, fetchErrs, restarts, startOffset, deliveries>>
  /\ UNCHANGED <<reqVars, dbVars, topic, clock, fnVars, getter, updater, prodRes, http>>

\* FetchMessage without the ctx.Err() check on an error: every error is
\* logged and followed by the backoff
ConsumerFetch_NoCtxCheck ==
  /\ cpc = "fetch"
  /\ \/ /\ fetchPos <= Len(topic)
        /\ cmsg' = fetchPos
        /\ fetchPos' = fetchPos + 1
        /\ deliveries' = Append(deliveries,
               [run |-> restarts, offset |-> fetchPos, ctxDone |-> cancelled])
        /\ cpc' = "unmarshal"
        /\ UNCHANGED fetchErrs
     \/ /\ cancelled
        /\ cpc' = "backoff"
        /\ UNCHANGED <<cmsg, fetchPos, fetchErrs, deliveries>>
     \/ /\ ~cancelled
        /\ fetchErrs < MaxFetchErrs
        /\ fetchErrs' = fetchErrs + 1
        /\ cpc' = "backoff"
        /\ UNCHANGED <<cmsg, fetchPos, deliveries>>
  /\ UNCHANGED <<cancelled, groupOffset, handled, undecodable, commitCalls,
                 restarts, startOffset>>
  /\ UNCHANGED <<reqVars, dbVars, topic, clock, fnVars, getter, updater, prodRes, http>>

\* FetchMessage with an error that ends the loop: StartConsuming returns on
\* any fetch error
ConsumerFetch_ReturnOnError ==
  /\ cpc = "fetch"
  /\ \/ /\ fetchPos <= Len(topic)
        /\ cmsg' = fetchPos
        /\ fetchPos' = fetchPos + 1
        /\ deliveries' = Append(deliveries,
               [run |-> restarts, offset |-> fetchPos, ctxDone |-> cancelled])
        /\ cpc' = "unmarshal"
        /\ UNCHANGED fetchErrs
     \/ /\ cancelled
        /\ cpc' = "fetchCancelled"
        /\ UNCHANGED <<cmsg, fetchPos, fetchErrs, deliveries>>
     \/ /\ ~cancelled
        /\ fetchErrs < MaxFetchErrs
        /\ fetchErrs' = fetchErrs + 1
        /\ cpc' = "fetchCancelled"
        /\ UNCHANGED <<cmsg, fetchPos, deliveries>>
  /\ UNCHANGED <<cancelled, groupOffset, handled, undecodable, commitCalls,
                 restarts, startOffset>>
  /\ UNCHANGED <<reqVars, dbVars, topic, clock, fnVars, getter, updater, prodRes, http>>

\* FetchMessage called with a context that is never done: without a
\* message and without an error the call blocks, cancelled or not
ConsumerFetch_Background ==
  /\ cpc = "fetch"
  /\ \/ /\ fetchPos <= Len(topic)
        /\ cmsg' = fetchPos
        /\ fetchPos' = fetchPos + 1
        /\ deliveries' = Append(deliveries,
               [run |-> restarts, offset |-> fetchPos, ctxDone |-> cancelled])
        /\ cpc' = "unmarshal"
        /\ UNCHANGED fetchErrs
     \/ /\ fetchErrs < MaxFetchErrs
        /\ fetchErrs' = fetchErrs + 1
        /\ cpc' = IF cancelled THEN "fetchCancelled" ELSE "backoff"
        /\ UNCHANGED <<cmsg, fetchPos, deliveries>>
  /\ UNCHANGED <<cancelled, groupOffset, handled, undecodable, commitCalls,
                 restarts, startOffset>>
  /\ UNCHANGED <<reqVars, dbVars, topic, clock, fnVars, getter, updater, prodRes, http>>

\* c.reader.FetchMessage(ctx): the next message of the topic is returned;
\* or an error is returned while ctx is done, and StartConsuming returns
\* (the return after the fetch, position "fetchCancelled");
\* or an error is returned while ctx is not done: it is logged and the
\* loop sleeps. Without a message and without an error the call blocks.
ConsumerFetch ==
  /\ cpc = "fetch"
  /\ \/ /\ fetchPos <= Len(topic)
        /\ cmsg' = fetchPos
        /\ fetchPos' = fetchPos + 1
        /\ deliveries' = Append(deliveries,
               [run |-> restarts, offset |-> fetchPos, ctxDone |-> cancelled])
        /\ cpc' = "unmarshal"
        /\ UNCHANGED fetchErrs
     \/ /\ cancelled
        /\ cpc' = "fetchCancelled"
        /\ UNCHANGED <<cmsg, fetchPos, fetchErrs, deliveries>>
     \/ /\ ~cancelled
        /\ fetchErrs < MaxFetchErrs
        /\ fetchErrs' = fetchErrs + 1
        /\ cpc' = "backoff"
        /\ UNCHANGED <<cmsg, fetchPos, deliveries>>
  /\ UNCHANGED <<cancelled, groupOffset, handled, undecodable, commitCalls,
                 restarts, startOffset>>
  /\ UNCHANGED <<reqVars, dbVars, topic, clock, fnVars, getter, updater, prodRes, http>>

\* the backoff followed by a break: the loop is left after the sleep
ConsumerBackoff_Break ==
  /\ cpc = "backoff"
  /\ cpc' = "stopped"
  /\ UNCHANGED <<cancelled, cmsg, fetchPos, groupOffset, handled, undecodable,
                 commitCalls, fetchErrs, restarts, startOffset, deliveries>>
  /\ UNCHANGED <<reqVars, dbVars, topic, clock, fnVars, getter, updater, prodRes, http>>

\* time.Sleep(time.Second) is over; continue
ConsumerBackoff ==
  /\ cpc = "backoff"
  /\ cpc' = "select"
  /\ UNCHANGED <<cancelled, cmsg, fetchPos, groupOffset, handled, undecodable,
                 commitCalls, fetchErrs, restarts, startOffset, deliveries>>
  /\ UNCHANGED <<reqVars, dbVars, topic, clock, fnVars, getter, updater, prodRes, http>>

\* json.Unmarshal with a failure that ends the loop (as log.Fatalf or a
\* return would)
ConsumerUnmarshal_Fatal ==
  /\ cpc = "unmarshal"
  /\ IF JsonUnmarshal(topic[cmsg].Value).err # NilErr
       THEN /\ undecodable' = undecodable \cup {cmsg}
            /\ cpc' = "stopped"
            /\ UNCHANGED handled
       ELSE /\ handled' = handled \cup {cmsg}
            /\ cpc' = "commit"
            /\ UNCHANGED undecodable
  /\ UNCHANGED <<cancelled, cmsg, fetchPos, groupOffset, commitCalls, fetchErrs,
                 restarts, startOffset, deliveries>>
  /\ UNCHANGED <<reqVars, dbVars, topic, clock, fnVars, getter, updater, prodRes, http>>

\* json.Unmarshal whose failure skips the commit: the loop continues with
\* the next iteration
ConsumerUnmarshal_ContinueOnError ==
  /\ cpc = "unmarshal"
  /\ IF JsonUnmarshal(topic[cmsg].Value).err # NilErr
       THEN /\ undecodable' = undecodable \cup {cmsg}
            /\ cpc' = "select"
            /\ UNCHANGED handled
       ELSE /\ handled' = handled \cup {cmsg}
            /\ cpc' = "commit"
            /\ UNCHANGED undecodable
  /\ UNCHANGED <<cancelled, cmsg, fetchPos, groupOffset, commitCalls, fetchErrs,
                 restarts, startOffset, deliveries>>
  /\ UNCHANGED <<reqVars, dbVars, topic, clock, fnVars, getter, updater, prodRes, http>>

\* json.Unmarshal of the payload: an error is logged, otherwise the event
\* is logged as received; both branches go on to the commit
ConsumerUnmarshal ==
  /\ cpc = "unmarshal"
  /\ IF JsonUnmarshal(topic[cmsg].Value).err # NilErr
       THEN /\ undecodable' = undecodable \cup {cmsg}
            /\ UNCHANGED handled
       ELSE /\ handled' = handled \cup {cmsg}
            /\ UNCHANGED undecodable
  /\ cpc' = "commit"
  /\ UNCHANGED <<cancelled, cmsg, fetchPos, groupOffset, commitCalls, fetchErrs,
                 restarts, startOffset, deliveries>>
  /\ UNCHANGED <<reqVars, dbVars, topic, clock, fnVars, getter, updater, prodRes, http>>

\* CommitMessages whose failure ends the loop
ConsumerCommit_ReturnOnError ==
  /\ cpc = "commit"
  /\ commitCalls' = Append(commitCalls, cmsg)
  /\ \E ok \in BOOLEAN :
       IF ok
         THEN /\ groupOffset' = IF cmsg + 1 > groupOffset THEN cmsg + 1 ELSE groupOffset
              /\ cpc' = "select"
         ELSE /\ UNCHANGED groupOffset
              /\ cpc' = "stopped"
  /\ UNCHANGED <<cancelled, cmsg, fetchPos, handled, undecodable, fetchErrs,
                 restarts, startOffset, deliveries>>
  /\ UNCHANGED <<reqVars, dbVars, topic, clock, fnVars, getter, updater, prodRes, http>>

\* c.reader.CommitMessages(ctx, msg): the position of the group moves past
\* the message, or the call fails and the error is only logged; the loop
\* goes round
ConsumerCommit ==
  /\ cpc = "commit"
  /\ commitCalls' = Append(commitCalls, cmsg)
  /\ \E ok \in BOOLEAN :
       IF ok
         THEN groupOffset' = IF cmsg + 1 > groupOffset THEN cmsg + 1 ELSE groupOffset
         ELSE UNCHANGED groupOffset
  /\ cpc' = "select"
  /\ UNCHANGED <<cancelled, cmsg, fetchPos, handled, undecodable, fetchErrs,
                 restarts, startOffset, deliveries>>
  /\ UNCHANGED <<reqVars, dbVars, topic, clock, fnVars, getter, updater, prodRes, http>>

\* the liveness of the loop: the goroutine of StartConsuming keeps running,
\* every call of the loop that can return does return
LoopFairness ==
  /\ WF_vars(ConsumerStart)
  /\ WF_vars(ConsumerSelect)
  /\ WF_vars(ConsumerFetch)
  /\ WF_vars(ConsumerBackoff)
  /\ WF_vars(ConsumerUnmarshal)
  /\ WF_vars(ConsumerCommit)

\* one run of the loop, with the cancellation from outside
NextLoop ==
  \/ ConsumerStart
  \/ Cancel
  \/ ConsumerSelect
  \/ ConsumerFetch
  \/ ConsumerBackoff
  \/ ConsumerUnmarshal
  \/ ConsumerCommit

SpecLoop == InitConsuming /\ [][NextLoop]_vars /\ LoopFairness

\* the process ends while StartConsuming is running: main returns after the
\* signal without waiting for the goroutine, or the process is killed
ConsumerCrash ==
  /\ cpc \notin {"idle", "stopped", "fetchCancelled", "crashed"}
  /\ cpc' = "crashed"
  /\ UNCHANGED <<cancelled, cmsg, fetchPos, groupOffset, handled, undecodable,
                 commitCalls, fetchErrs, restarts, startOffset, deliveries>>
  /\ UNCHANGED <<reqVars, dbVars, topic, clock, fnVars, getter, updater, prodRes, http>>

\* a reader without GroupID: it starts at the first offset of the topic
ConsumerRestart_NoGroup ==
  /\ cpc \in {"stopped", "fetchCancelled", "crashed"}
  /\ restarts < MaxRestarts
  /\ restarts' = restarts + 1
  /\ cpc' = "idle"
  /\ cancelled' = FALSE
  /\ cmsg' = 0
  /\ fetchPos' = 1
  /\ startOffset' = 1
  /\ UNCHANGED <<groupOffset, handled, undecodable, commitCalls, fetchErrs, deliveries>>
  /\ UNCHANGED <<reqVars, dbVars, topic, clock, fnVars, getter, updater, prodRes, http>>

\* the process is started again: NewConsumer makes a reader of the same
\* GroupID, which starts at the committed position of the group, under a
\* context that is not cancelled
ConsumerRestart ==
  /\ cpc \in {"stopped", "fetchCancelled", "crashed"}
  /\ restarts < MaxRestarts
  /\ restarts' = restarts + 1
  /\ cpc' = "idle"
  /\ cancelled' = FALSE
  /\ cmsg' = 0
  /\ fetchPos' = groupOffset
  /\ startOffset' = groupOffset
  /\ UNCHANGED <<groupOffset, handled, undecodable, commitCalls, fetchErrs, deliveries>>
  /\ UNCHANGED <<reqVars, dbVars, topic, clock, fnVars, getter, updater, prodRes, http>>

NextConsumer ==
  \/ ConsumerStart
  \/ Cancel
  \/ ConsumerSelect
  \/ ConsumerFetch
  \/ ConsumerBackoff
  \/ ConsumerUnmarshal
  \/ ConsumerCommit
  \/ ConsumerCrash
  \/ ConsumerRestart

SpecConsumer == InitConsuming /\ [][NextConsumer]_vars

\* =========================================== kafka: Producer on its own
\* the messages clients hand to PublishMessage: events of orders, keyed by
\* the string of the order identifier; two different events share a key
ProducerMessages ==
  {[Key |-> UuidString(o.ID), Value |-> JsonMarshal(OrderPlacedEvent(o))] :
     o \in StoreOrders}

\* a new Producer on an empty topic; the order service is idle
InitProducer ==
  /\ InitRequests
  /\ dbOrders = {}
  /\ dbItems = {}
  /\ topic = <<>>
  /\ clock = 0
  /\ InitClients
  /\ InitConsumer
  /\ fnIn = [customerID |-> "cust1", items |-> <<>>]
  /\ fnOut = NoResult

\* Producer.PublishMessage(ctx, key, value): WriteMessages takes the message
\* and nil is returned, or it fails and the error is returned wrapped
PublishMessage ==
  /\ Len(prodRes) < MaxPublishes
  /\ \E msg \in ProducerMessages, ok \in BOOLEAN :
       IF ok
         THEN /\ topic' = WriteMessages(topic, msg)
              /\ prodRes' = Append(prodRes, NilErr)
         ELSE /\ UNCHANGED topic
              /\ prodRes' = Append(prodRes,
                    Wrap("failed to write message to Kafka", NewErr(BrokerErr)))
  /\ UNCHANGED <<reqVars, dbVars, clock, fnVars, getter, updater, consVars, http>>

NextProducer == PublishMessage

SpecProducer == InitProducer /\ [][NextProducer]_vars

\* ================================================= api: Handler.CreateOrder
\* the payloads POST /orders is called with: one that is not JSON, one
\* without a customer, one with an item without a product, and the item
\* sequences of the pipeline (empty, zero quantity, negative and zero unit
\* price, and a valid order of two items)
HttpRequests ==
  { [malformed |-> TRUE, CustomerID |-> "", Items |-> <<>>],
    [malformed |-> FALSE, CustomerID |-> "", Items |-> <<Item("prod1", 1, 10)>>],
    [malformed |-> FALSE, CustomerID |-> "cust1", Items |-> <<Item("", 1, 10)>>] }
  \cup
  { [malformed |-> FALSE, CustomerID |-> c, Items |-> items] :
      c \in CustomerIDs, items \in PipelineItemSeqs }

\* c.ShouldBindJSON(&req) fails: the body is not JSON of the request, or a
\* binding tag rejects it (customer_id required, items required,min=1)
BindFails(req) ==
  \/ req.malformed
  \/ req.CustomerID = ""
  \/ Len(req.Items) < 1

\* the checks of the handler without the one of the unit price
RequestError_NoPriceCheck(req) ==
  IF req.CustomerID = "" THEN "Customer ID is required"
  ELSE IF Len(req.Items) = 0 THEN "Order must contain at least one item"
  ELSE LET bad == {i \in DOMAIN req.Items :
                     \/ req.Items[i].ProductID = ""
                     \/ req.Items[i].Quantity <= 0}
           i == CHOOSE k \in bad : \A j \in bad : k <= j
       IN IF bad = {} THEN ""
          ELSE IF req.Items[i].ProductID = "" THEN "Product ID is required for all items"
          ELSE "Item quantity must be positive"

\* the checks of the handler after the binding; "" when all pass
RequestError(req) ==
  IF req.CustomerID = "" THEN "Customer ID is required"
  ELSE IF Len(req.Items) = 0 THEN "Order must contain at least one item"
  ELSE LET bad == {i \in DOMAIN req.Items :
                     \/ req.Items[i].ProductID = ""
                     \/ req.Items[i].Quantity <= 0
                     \/ req.Items[i].UnitPrice <= 0}
           i == CHOOSE k \in bad : \A j \in bad : k <= j
       IN IF bad = {} THEN ""
          ELSE IF req.Items[i].ProductID = "" THEN "Product ID is required for all items"
          ELSE IF req.Items[i].Quantity <= 0 THEN "Item quantity must be positive"
          ELSE "Item unit price must be positive"

\* NewOrderResponse(order)
NewOrderResponse(o) ==
  [id |-> o.ID, customer_id |-> o.CustomerID,
   items |-> [i \in DOMAIN o.Items |->
                [product_id |-> o.Items[i].ProductID,
                 quantity |-> o.Items[i].Quantity,
                 unit_price |-> o.Items[i].UnitPrice]],
   status |-> o.Status, total_price |-> o.TotalPrice,
   created_at |-> o.CreatedAt, updated_at |-> o.UpdatedAt]

\* err.Error(): the texts of the chain joined by ": "
RECURSIVE ErrorText(_)
ErrorText(err) ==
  IF Len(err) = 0 THEN ""
  ELSE IF Len(err) = 1 THEN err[1]
  ELSE err[1] \o ": " \o ErrorText(Tail(err))

\* c.JSON(status, body) for the request
Respond(r, req, status, body) ==
  http' = [http EXCEPT ![r] = [req |-> req, status |-> status, body |-> body]]

\* POST /orders up to the call of the service: a payload that does not
\* bind, or that fails a check of the handler, is answered 400 and nothing
\* else happens; otherwise h.orderService.CreateOrder is called with the
\* customer and the items of the payload
HandlerCreateOrder(r) ==
  /\ pc[r] = "idle"
  /\ \E req \in HttpRequests :
       IF BindFails(req)
         THEN /\ Respond(r, req, 400, [Error |-> "Invalid request payload"])
              /\ pc' = [pc EXCEPT ![r] = "responded"]
              /\ UNCHANGED <<args, order, tx, itemIdx, repoErr, pubErr, result,
                             repoCalls, publishCalls, ctxErr>>
              /\ UNCHANGED <<dbVars, topic, clock, fnVars, getter, updater, consVars, prodRes>>
       ELSE IF RequestError(req) # ""
         THEN /\ Respond(r, req, 400, [Error |-> RequestError(req)])
              /\ pc' = [pc EXCEPT ![r] = "responded"]
              /\ UNCHANGED <<args, order, tx, itemIdx, repoErr, pubErr, result,
                             repoCalls, publishCalls, ctxErr>>
              /\ UNCHANGED <<dbVars, topic, clock, fnVars, getter, updater, consVars, prodRes>>
       ELSE /\ Respond(r, req, 0, [Error |-> ""])
            /\ ServiceCreateOrderWith(r, req.CustomerID, req.Items)

\* the service returned to the handler: a validation error of the domain
\* is answered 400 with its text, any other error 500, and an order 201
\* with its representation
HandlerRespond(r) ==
  /\ pc[r] = "done"
  /\ http[r].status = 0
  /\ LET err == result[r].err IN
     IF err # NilErr
       THEN IF \/ ErrorsIs(err, ErrNoOrderItems)
               \/ ErrorsIs(err, ErrInvalidOrderItemQuantity)
               \/ ErrorsIs(err, ErrInvalidOrderItemUnitPrice)
              THEN Respond(r, http[r].req, 400, [Error |-> ErrorText(err)])
              ELSE Respond(r, http[r].req, 500, [Error |-> "Failed to create order"])
       ELSE Respond(r, http[r].req, 201, NewOrderResponse(result[r].order))
  /\ pc' = [pc EXCEPT ![r] = "responded"]
  /\ UNCHANGED <<args, order, tx, itemIdx, repoErr, pubErr, result, repoCalls, publishCalls, ctxErr>>
  /\ UNCHANGED <<dbVars, topic, clock, fnVars, getter, updater, consVars, prodRes>>

NextHttp ==
  \E r \in Reqs :
    \/ HandlerCreateOrder(r)
    \/ RepoBeginTx(r)
    \/ RepoInsertOrder(r)
    \/ RepoInsertItem(r)
    \/ RepoCommit(r)
    \/ ServiceAfterPersist(r)
    \/ ServicePublish(r)
    \/ HandlerRespond(r)

SpecHttp == Init /\ [][NextHttp]_vars

\* ================================================================ claims
\* indices of the messages on the topic whose key is the string of id
MsgsFor(id) == {i \in DOMAIN topic : topic[i].Key = UuidString(id)}

\* the order of request r is committed: its order row and one row for each
\* of its items are visible
Persisted(r) ==
  /\ OrderRow(order[r]) \in dbOrders
  /\ \A k \in DOMAIN order[r].Items :
       ItemRow(ItemUuid(r, k), order[r].ID, order[r].Items[k]) \in dbItems

\* the store's create was called for request r and returned an error
PersistFailed(r) ==
  pc[r] \in {"returned", "publish", "done"} /\ repoCalls[r] > 0 /\ repoErr[r] # NilErr

\* the store's create was called for request r and returned nil
PersistSucceeded(r) ==
  pc[r] \in {"returned", "publish", "done"} /\ repoCalls[r] > 0 /\ repoErr[r] = NilErr

\* C1: when the store's create failed for a request, PublishMessage is
\* never called for it, no message with its order's key is on the topic,
\* no row of the order is visible, and CreateOrder returns no order and an
\* error that wraps the store's error.
C1_PersistFailureAbortsWithoutPublish ==
  \A r \in Reqs :
    PersistFailed(r) =>
      /\ publishCalls[r] = 0
      /\ MsgsFor(order[r].ID) = {}
      /\ \A o \in dbOrders : o.id # order[r].ID
      /\ pc[r] # "publish"
      /\ pc[r] = "done" =>
           /\ result[r].returned
           /\ result[r].order = NilOrder
           /\ result[r].err = Wrap("service: failed to persist order", repoErr[r])

C1_Witness ==
  \E r \in Reqs :
    /\ PersistFailed(r)
    /\ pc[r] = "done"
    /\ result[r].order = NilOrder
    /\ \E q \in Reqs : Len(topic) > 0 /\ PersistSucceeded(q)

\* C2: when the store's create succeeded and the publish failed,
\* CreateOrder returns the created order and a nil error, and the order is
\* still persisted exactly as it was written.
C2_PublishFailureKeepsOrder ==
  \A r \in Reqs :
    (pc[r] = "done" /\ PersistSucceeded(r) /\ pubErr[r] # NilErr) =>
      /\ result[r] = Returned(order[r], NilErr)
      /\ result[r].order # NilOrder
      /\ Persisted(r)
      /\ Cardinality({o \in dbOrders : o.id = order[r].ID}) = 1
      /\ Cardinality({it \in dbItems : it.order_id = order[r].ID}) = Len(order[r].Items)

C2_Witness ==
  \E r \in Reqs :
    /\ pc[r] = "done"
    /\ PersistSucceeded(r)
    /\ pubErr[r] # NilErr
    /\ result[r].order = order[r]
    /\ Len(order[r].Items) = 2

\* the error NewOrder gives for the arguments of request r
FactoryErr(r) == NewOrder(args[r].customerID, args[r].items, OrderUuid(r), 0).err

\* C3: when NewOrder rejects the input, CreateOrder returns no order and an
\* error in which the validation error is still recognised by errors.Is;
\* the store's create and PublishMessage are not called, no row of the
\* request is in the store and no message of it on the topic.
C3_ValidationFailureTouchesNothing ==
  \A r \in Reqs :
    (pc[r] # "idle" /\ FactoryErr(r) # NilErr) =>
      /\ pc[r] = "done"
      /\ result[r].returned
      /\ result[r].order = NilOrder
      /\ FactoryErr(r)[1] \in {ErrNoOrderItems, ErrInvalidOrderItemQuantity,
                               ErrInvalidOrderItemUnitPrice}
      /\ ErrorsIs(result[r].err, FactoryErr(r)[1])
      /\ repoCalls[r] = 0
      /\ publishCalls[r] = 0
      /\ tx[r] = NoTx
      /\ \A o \in dbOrders : o.id # OrderUuid(r)
      /\ \A it \in dbItems : it.order_id # OrderUuid(r)
      /\ MsgsFor(OrderUuid(r)) = {}

C3_Witness ==
  /\ \E r \in Reqs : pc[r] = "done" /\ ErrorsIs(result[r].err, ErrNoOrderItems)
  /\ \E r \in Reqs : pc[r] = "done" /\ ErrorsIs(result[r].err, ErrInvalidOrderItemQuantity)

\* C4: every message on the topic has the key of an order whose
\* transaction has committed: the order row with that identifier and all
\* item rows of that order are visible in the store.
C4_PublishedOrdersAreCommitted ==
  \A i \in DOMAIN topic :
    \E r \in Reqs :
      /\ order[r] # NilOrder
      /\ topic[i].Key = UuidString(order[r].ID)
      /\ PersistSucceeded(r)
      /\ Persisted(r)

\* a message is on the topic while another request is inside its transaction
C4_Witness ==
  /\ Len(topic) >= 1
  /\ \E r \in Reqs : pc[r] = "insertItems" /\ tx[r].items # {}

\* CreateOrder returned the order of request r with a nil error
CreateSucceeded(r) ==
  pc[r] = "done" /\ result[r].returned /\ result[r].err = NilErr /\ result[r].order # NilOrder

\* C5 as stated: after a successful CreateOrder there is exactly one
\* message on the topic for that order.
C5_ExactlyOneMessagePerOrder ==
  \A r \in Reqs :
    CreateSucceeded(r) => Cardinality(MsgsFor(result[r].order.ID)) = 1

\* C5 as amended: the pipeline calls PublishMessage at most once for an
\* order and at most one message with the order's key is on the topic;
\* after a successful CreateOrder there is exactly one such message when
\* the publish succeeded and none when it failed; every message on the
\* topic is keyed by the string of the identifier its value carries.
C5_AtMostOneMessagePerOrder ==
  /\ \A r \in Reqs :
       /\ publishCalls[r] <= 1
       /\ order[r] # NilOrder => Cardinality(MsgsFor(order[r].ID)) <= 1
       /\ CreateSucceeded(r) =>
            /\ publishCalls[r] = 1
            /\ Cardinality(MsgsFor(result[r].order.ID)) = (IF pubErr[r] = NilErr THEN 1 ELSE 0)
  /\ \A i \in DOMAIN topic :
       /\ topic[i].Key = topic[i].Value.order_id
       /\ \E r \in Reqs : order[r] # NilOrder /\ topic[i].Key = UuidString(order[r].ID)

C5_Witness ==
  /\ \A r \in Reqs : CreateSucceeded(r) /\ pubErr[r] = NilErr
  /\ \A r \in Reqs : Cardinality(MsgsFor(result[r].order.ID)) = 1
  /\ Len(topic) = NumReqs

\* C6: an order that was persisted and returned while its publish failed
\* has no message on the topic; the request is finished, nothing publishes
\* for it later, so this holds from then on.
C6_FailedPublishLeavesNoEvent ==
  \A r \in Reqs :
    (CreateSucceeded(r) /\ pubErr[r] # NilErr) =>
      /\ Persisted(r)
      /\ MsgsFor(order[r].ID) = {}
      /\ ~ ENABLED ServicePublish(r)

\* every request has returned; one order is persisted and returned with no
\* message on the topic
C6_Witness ==
  /\ \A r \in Reqs : pc[r] = "done"
  /\ \E r \in Reqs :
       /\ CreateSucceeded(r)
       /\ Persisted(r)
       /\ pubErr[r] # NilErr
       /\ MsgsFor(order[r].ID) = {}

\* ------------------------------------------------- claims about NewOrder
\* NewOrder returned (nil, err) with err being exactly the value target
FailsWith(target) == fnOut.order = NilOrder /\ fnOut.err = NewErr(target)

\* C7: for an item sequence of length 0, NewOrder returns no order and
\* ErrNoOrderItems.
C7_EmptyItemsRejected ==
  (fnOut.returned /\ Len(fnIn.items) = 0) => FailsWith(ErrNoOrderItems)

C7_Witness ==
  fnOut.returned /\ Len(fnIn.items) = 0 /\ fnOut.order = NilOrder

\* positions of the items with quantity <= 0
BadQuantity(items) == {i \in DOMAIN items : items[i].Quantity <= 0}

\* smallest element of a non-empty set of positions
First(S) == CHOOSE i \in S : \A j \in S : i <= j

\* C8 as stated: for an item sequence with an item of quantity <= 0,
\* NewOrder returns no order and ErrInvalidOrderItemQuantity.
C8_AnyBadQuantityGivesInvalidQuantity ==
  (fnOut.returned /\ BadQuantity(fnIn.items) # {}) =>
    FailsWith(ErrInvalidOrderItemQuantity)

\* C8 as amended: for an item sequence with an item of quantity <= 0,
\* NewOrder returns no order; the error is ErrInvalidOrderItemQuantity,
\* unless an item before the first item of quantity <= 0 has a negative
\* unit price, and then it is ErrInvalidOrderItemUnitPrice.
C8_BadQuantityRejected ==
  (fnOut.returned /\ BadQuantity(fnIn.items) # {}) =>
    LET first == First(BadQuantity(fnIn.items)) IN
    IF \E j \in 1..(first - 1) : fnIn.items[j].UnitPrice < 0
      THEN FailsWith(ErrInvalidOrderItemUnitPrice)
      ELSE FailsWith(ErrInvalidOrderItemQuantity)

C8_Witness ==
  /\ fnOut.returned
  /\ Len(fnIn.items) = 2
  /\ fnIn.items[1].Quantity > 0
  /\ fnIn.items[1].UnitPrice = 0
  /\ fnIn.items[2].Quantity < 0
  /\ fnIn.items[2].UnitPrice < 0
  /\ FailsWith(ErrInvalidOrderItemQuantity)

\* C9, in the cases where every quantity is valid (so that the order of
\* the checks plays no part): for an item sequence with an item of unit
\* price <= 0, zero included, NewOrder returns no order and
\* ErrInvalidOrderItemUnitPrice.
C9_NonPositiveUnitPriceRejected ==
  (/\ fnOut.returned
   /\ BadQuantity(fnIn.items) = {}
   /\ \E i \in DOMAIN fnIn.items : fnIn.items[i].UnitPrice <= 0) =>
    FailsWith(ErrInvalidOrderItemUnitPrice)

\* the input satisfies the preconditions of the factory
ValidItems(items) ==
  /\ Len(items) > 0
  /\ \A i \in DOMAIN items : items[i].Quantity > 0 /\ items[i].UnitPrice > 0

\* sum of quantity x unitPrice over the positions in S
RECURSIVE SumOver(_, _)
SumOver(items, S) ==
  IF S = {} THEN 0
  ELSE LET i == CHOOSE j \in S : TRUE
       IN items[i].Quantity * items[i].UnitPrice + SumOver(items, S \ {i})

\* C10: for a valid input NewOrder returns an order and a nil error; the
\* order's totalPrice is the sum of quantity x unitPrice over the items
\* and is not negative, and its items are the given items.
C10_TotalPriceIsSumOfLines ==
  (fnOut.returned /\ ValidItems(fnIn.items)) =>
    /\ fnOut.err = NilErr
    /\ fnOut.order # NilOrder
    /\ fnOut.order.TotalPrice = SumOver(fnIn.items, DOMAIN fnIn.items)
    /\ fnOut.order.TotalPrice >= 0
    /\ fnOut.order.Items = fnIn.items
    /\ fnOut.order.CustomerID = fnIn.customerID

C10_Witness ==
  /\ fnOut.returned
  /\ ValidItems(fnIn.items)
  /\ Len(fnIn.items) = 2
  /\ fnIn.items[1].Quantity = 2
  /\ fnIn.items[1] # fnIn.items[2]
  /\ fnOut.order.TotalPrice = SumOver(fnIn.items, DOMAIN fnIn.items)

\* ------------------------------------------- claims about created orders
\* the fields a created order has whatever the input was
FreshOrder(o) ==
  /\ o.Status = OrderStatusPending
  /\ o.ID # UuidNil
  /\ o.CreatedAt = o.UpdatedAt

\* C11: every order NewOrder built for a request, and every order a
\* successful CreateOrder returned, has status pending, an identifier that
\* is not uuid.Nil and differs from the identifier of every other created
\* order, and createdAt equal to updatedAt.
C11_CreatedOrderIsFresh ==
  \A r \in Reqs :
    /\ order[r] # NilOrder =>
         /\ FreshOrder(order[r])
         /\ \A q \in Reqs \ {r} : order[q] # NilOrder => order[q].ID # order[r].ID
    /\ CreateSucceeded(r) =>
         /\ FreshOrder(result[r].order)
         /\ \A q \in Reqs \ {r} :
              CreateSucceeded(q) => result[q].order.ID # result[r].order.ID

\* every request returned an order, one of them built after the clock moved
C11_Witness ==
  /\ \A r \in Reqs : CreateSucceeded(r) /\ FreshOrder(result[r].order)
  /\ \E r \in Reqs : result[r].order.CreatedAt > 0
  /\ \E r, q \in Reqs : result[r].order.ID # result[q].order.ID

\* ------------------------------------------------ claims about the store
\* the callers whose create of the same identifier as r's succeeded
Winners(r) ==
  {q \in Reqs \ {r} : order[q].ID = order[r].ID /\ PersistSucceeded(q)}

\* the visible order rows and item rows of identifier id
OrderRowsOf(id) == {o \in dbOrders : o.id = id}
ItemRowsOf(id) == {it \in dbItems : it.order_id = id}

\* the store's GetOrderByID returned no order and ErrOrderNotFound, or no
\* order and an error of the driver
NotFoundOrDriverFailure(res) ==
  /\ res.order = NilOrder
  /\ \/ res.err = NewErr(ErrOrderNotFound)
     \/ ErrorsIs(res.err, DriverErr) /\ ~ErrorsIs(res.err, ErrOrderNotFound)

\* C12: after a create failed (at begin, at the order insert, at the k-th
\* item insert or at commit), none of the rows it wrote is visible; unless
\* another create of the same identifier succeeded, no order row and no
\* item row of the identifier is visible, and a GetOrderByID of the
\* identifier that starts after the failure returns no order and
\* ErrOrderNotFound (or fails in the driver).
C12_FailedCreateLeavesNothing ==
  \A r \in Reqs :
    PersistFailed(r) =>
      /\ tx[r] = NoTx
      /\ \A it \in dbItems : it.id[1] # r
      /\ Winners(r) = {} =>
           /\ OrderRowsOf(order[r].ID) = {}
           /\ ItemRowsOf(order[r].ID) = {}
           /\ (getter.pc = "done" /\ getter.id = order[r].ID /\ r \in getter.after) =>
                NotFoundOrDriverFailure(getter.repoRes)

\* a create failed at its second item insert, and a GetOrderByID that
\* started after it returned ErrOrderNotFound
C12_Witness ==
  \E r \in Reqs :
    /\ PersistFailed(r)
    /\ repoErr[r] = Wrap("failed to insert order item", NewErr(DriverErr))
    /\ itemIdx[r] = 2
    /\ Winners(r) = {}
    /\ getter.pc = "done" /\ getter.id = order[r].ID /\ r \in getter.after
    /\ getter.repoRes = Returned(NilOrder, NewErr(ErrOrderNotFound))

\* the error of a create that the primary key rejected
ConflictErr == Wrap("failed to insert order", NewErr(PqUniqueViolation))

\* a step of caller r's INSERT INTO orders while a committed order row has
\* the identifier: the call returns an error, the unique violation unless
\* the driver failed, and the tables stay as they are
DuplicateInsertFails(r) ==
  (pc[r] = "insertOrder" /\ pc'[r] # "insertOrder" /\ OrderRowsOf(order[r].ID) # {}) =>
    /\ pc'[r] = "returned"
    /\ repoErr'[r] = ConflictErr \/ ErrorsIs(repoErr'[r], DriverErr)
    /\ tx'[r] = NoTx
    /\ dbOrders' = dbOrders
    /\ dbItems' = dbItems

\* a create that returned the unique violation: the error is told apart
\* from a driver failure and from ErrOrderNotFound, nothing of the call is
\* visible, and the rows of the identifier are the rows of the create that
\* succeeded
ConflictKeepsFirst(r) ==
  (pc[r] = "returned" /\ ErrorsIs(repoErr[r], PqUniqueViolation)) =>
    /\ repoErr[r] = ConflictErr
    /\ ~ErrorsIs(repoErr[r], DriverErr)
    /\ ~ErrorsIs(repoErr[r], ErrOrderNotFound)
    /\ \A it \in dbItems : it.id[1] # r
    /\ \E q \in Winners(r) :
         /\ OrderRowsOf(order[r].ID) = {OrderRow(order[q])}
         /\ ItemRowsOf(order[r].ID) = CommittedItems(q, order[q])

\* C13: a create of an identifier that a stored order has fails with the
\* unique violation of the primary key (recognisable in the error chain and
\* different from every other failure), inserts nothing and leaves the
\* rows of the stored order as they are; no identifier ever has two order
\* rows.
C13_DuplicateCreateConflicts ==
  /\ [](\A r \in Reqs : ConflictKeepsFirst(r))
  /\ [](\A o1, o2 \in dbOrders : o1.id = o2.id => o1 = o2)
  /\ [][\A r \in Reqs : DuplicateInsertFails(r)]_vars

\* a one-item create was rejected for the identifier of a stored two-item
\* order
C13_Witness ==
  \E r \in Reqs :
    /\ pc[r] = "returned"
    /\ repoErr[r] = ConflictErr
    /\ Len(order[r].Items) = 1
    /\ \E q \in Winners(r) :
         /\ Len(order[q].Items) = 2
         /\ ItemRowsOf(order[r].ID) = CommittedItems(q, order[q])

\* the callers that create identifier id
CreatorsOf(id) == {r \in Reqs : order[r].ID = id}

\* C14: of the concurrent creates of one identifier at most one succeeds;
\* when all have returned and none failed in the driver, exactly one
\* succeeded and every other returned the unique violation; the store
\* holds at most one order row of the identifier, and with a winner
\* exactly the winner's order row and item rows.
C14_ConcurrentCreatesOneWinner ==
  \A id \in StoreIds :
    LET G == CreatorsOf(id)
        won == {r \in G : PersistSucceeded(r)}
    IN /\ Cardinality(won) <= 1
       /\ Cardinality(OrderRowsOf(id)) <= 1
       /\ (/\ \A r \in G : pc[r] = "returned"
           /\ \A r \in G : ~ErrorsIs(repoErr[r], DriverErr)
           /\ G # {}) =>
            /\ Cardinality(won) = 1
            /\ \A r \in G \ won : repoErr[r] = ConflictErr
       /\ \A w \in won :
            /\ OrderRowsOf(id) = {OrderRow(order[w])}
            /\ ItemRowsOf(id) = CommittedItems(w, order[w])
       /\ won = {} => OrderRowsOf(id) = {} /\ ItemRowsOf(id) = {}

\* every caller created the same identifier and has returned: the two-item
\* create won, every other create returned the unique violation
C14_Witness ==
  \E id \in StoreIds :
    /\ CreatorsOf(id) = Reqs
    /\ \A r \in Reqs : pc[r] = "returned"
    /\ \E w \in Reqs :
         /\ PersistSucceeded(w)
         /\ Len(order[w].Items) = 2
         /\ ItemRowsOf(id) = CommittedItems(w, order[w])
         /\ \A r \in Reqs \ {w} : repoErr[r] = ConflictErr

\* -------------------------------------------------- claims about reading
\* the items of a sequence with the number of times each occurs
BagOf(s) ==
  [x \in {s[i] : i \in DOMAIN s} |-> Cardinality({i \in DOMAIN s : s[i] = x})]

\* two orders agree in every field, the items taken as a multiset
SameOrder(a, b) ==
  /\ a.ID = b.ID
  /\ a.CustomerID = b.CustomerID
  /\ a.Status = b.Status
  /\ a.TotalPrice = b.TotalPrice
  /\ a.CreatedAt = b.CreatedAt
  /\ a.UpdatedAt = b.UpdatedAt
  /\ BagOf(a.Items) = BagOf(b.Items)

\* C15: the order a successful GetOrderByID returns equals the order that
\* was created with the identifier: same id, customerId, status,
\* totalPrice, createdAt, updatedAt and the same multiset of items.
C15_RoundTripReturnsCreatedOrder ==
  (getter.pc = "done" /\ getter.repoRes.err = NilErr) =>
    \E w \in Reqs :
      /\ PersistSucceeded(w)
      /\ order[w].ID = getter.id
      /\ SameOrder(getter.repoRes.order, order[w])

\* the store's GetOrderByID returned an order, or ErrOrderNotFound itself
FoundOrNotFound(res) ==
  \/ res.err = NilErr /\ res.order # NilOrder
  \/ res = Returned(NilOrder, NewErr(ErrOrderNotFound))

\* the call that just returned and the call before it asked for the same
\* identifier, no create committed from the start of the earlier call to
\* the end of the later one, and neither failed in the driver
TwoQuietGets ==
  /\ getter.pc = "done"
  /\ getter.prev.valid
  /\ getter.prev.id = getter.id
  /\ getter.prev.startDb = getter.endDb
  /\ FoundOrNotFound(getter.repoRes)
  /\ FoundOrNotFound(getter.prev.res)

\* C16 as stated: two GetOrderByID calls for one identifier with no
\* mutation between them return identical results.
C16_TwoGetsIdentical ==
  TwoQuietGets => getter.repoRes = getter.prev.res

\* a step of GetOrderByID leaves both tables, the open transactions and
\* the topic as they are
GetChangesNothing ==
  getter' # getter =>
    /\ dbOrders' = dbOrders
    /\ dbItems' = dbItems
    /\ tx' = tx
    /\ topic' = topic

\* two GetOrderByID calls for one identifier with no mutation between them
\* both return ErrOrderNotFound, or return orders that agree in every
\* field and in the multiset of items
TwoGetsSameUpToItemOrder ==
  TwoQuietGets =>
    /\ getter.repoRes.err = getter.prev.res.err
    /\ getter.repoRes.err = NilErr =>
         SameOrder(getter.repoRes.order, getter.prev.res.order)

\* C16 as amended: GetOrderByID changes no stored state, and two calls for
\* one identifier with no mutation between them that do not fail in the
\* driver return the same outcome: ErrOrderNotFound both times, or the same
\* order with the same items, the sequence of the items possibly
\* different.
C16_GetIsRepeatable ==
  /\ []TwoGetsSameUpToItemOrder
  /\ [][GetChangesNothing]_vars

\* two calls returned the same order with its two items in different
\* sequence
C16_Witness ==
  /\ TwoQuietGets
  /\ getter.repoRes.err = NilErr
  /\ Len(getter.repoRes.order.Items) = 2
  /\ getter.repoRes.order.Items # getter.prev.res.order.Items
  /\ SameOrder(getter.repoRes.order, getter.prev.res.order)

\* no order row had the identifier when the call that returned started
AbsentAtStart == {o \in getter.startDb[1] : o.id = getter.id} = {}

\* C17: GetOrderByID of an identifier that no order row has returns no
\* order and ErrOrderNotFound (unless the driver failed), and
\* ErrOrderNotFound is returned in no other case: a failure of the driver
\* is never ErrOrderNotFound and a stored identifier never gives it.
C17_AbsentGivesNotFound ==
  getter.pc = "done" =>
    /\ AbsentAtStart => NotFoundOrDriverFailure(getter.repoRes)
    /\ ErrorsIs(getter.repoRes.err, ErrOrderNotFound) =>
         /\ AbsentAtStart
         /\ getter.repoRes = Returned(NilOrder, NewErr(ErrOrderNotFound))
    /\ getter.repoRes.err # NilErr => getter.repoRes.order = NilOrder

\* ErrOrderNotFound was returned for an identifier while the store held
\* another order
C17_Witness ==
  /\ getter.pc = "done"
  /\ AbsentAtStart
  /\ getter.startDb[1] # {}
  /\ getter.repoRes = Returned(NilOrder, NewErr(ErrOrderNotFound))

\* ---------------------------------------- claims about UpdateOrderStatus
\* C18: a step of UpdateOrderStatus(id, s) that returns nil found the
\* order, and sets the status of its row to s and its updated_at to the
\* time of the call, not earlier than before; when no row has the
\* identifier the call returns ErrOrderNotFound (unless the driver failed)
\* and changes nothing; ErrOrderNotFound is returned in no other case, and
\* no call changes another order's row or an item row.
C18_UpdateStatusEffect ==
  [][\A u \in Upds :
       (updater[u].pc = "idle" /\ updater'[u].pc = "done") =>
         LET id == updater'[u].id
             err == updater'[u].err
             hit == OrderRowsOf(id)
         IN /\ dbItems' = dbItems
            /\ \A o \in dbOrders \ hit : o \in dbOrders'
            /\ Cardinality(dbOrders') = Cardinality(dbOrders)
            /\ hit = {} =>
                 /\ dbOrders' = dbOrders
                 /\ err = NewErr(ErrOrderNotFound) \/ ErrorsIs(err, DriverErr)
            /\ err = NewErr(ErrOrderNotFound) => hit = {}
            /\ (hit # {} /\ ~ErrorsIs(err, DriverErr)) => err = NilErr
            /\ (hit # {} /\ err = NilErr) =>
                 /\ dbOrders' = (dbOrders \ hit) \cup
                      {[o EXCEPT !.status = updater'[u].status, !.updated_at = clock'] :
                         o \in hit}
                 /\ \A o \in hit : clock' >= o.updated_at
    ]_vars

\* one call set the status of the stored order and moved its updated_at,
\* another call returned ErrOrderNotFound
C18_Witness ==
  /\ \E u \in Upds :
       /\ updater[u].pc = "done"
       /\ updater[u].err = NilErr
       /\ \E o \in dbOrders :
            /\ o.id = updater[u].id
            /\ o.status = updater[u].status
            /\ o.status # OrderStatusPending
            /\ o.updated_at > o.created_at
  /\ \E v \in Upds :
       /\ updater[v].pc = "done"
       /\ updater[v].err = NewErr(ErrOrderNotFound)
       /\ OrderRowsOf(updater[v].id) = {}

\* --------------------------------- claims about the service's GetOrderByID
\* C19: GetOrderByID of the service returns the store's order with a nil
\* error when the store succeeded; when the store returned
\* ErrOrderNotFound the caller's error is still ErrOrderNotFound for
\* errors.Is; every other error of the store comes back wrapped as
\* "failed to get order" with the cause in the chain; no order is returned
\* with an error.
C19_ServiceGetPassesThrough ==
  getter.pc = "done" =>
    LET rr == getter.repoRes
        sr == getter.res
    IN /\ sr.returned
       /\ rr.err = NilErr => sr = Returned(rr.order, NilErr) /\ sr.order # NilOrder
       /\ rr.err # NilErr => sr.order = NilOrder /\ sr.err # NilErr
       /\ ErrorsIs(rr.err, ErrOrderNotFound) => ErrorsIs(sr.err, ErrOrderNotFound)
       /\ (rr.err # NilErr /\ ~ErrorsIs(rr.err, ErrOrderNotFound)) =>
            /\ sr.err = Wrap("failed to get order", rr.err)
            /\ ErrorsIs(sr.err, DriverErr)
            /\ ~ErrorsIs(sr.err, ErrOrderNotFound)

\* the second query of the store failed and the service returned the
\* wrapped error, after an earlier call had returned ErrOrderNotFound
C19_Witness ==
  /\ getter.pc = "done"
  /\ getter.repoRes.err = Wrap("failed to get order items", NewErr(DriverErr))
  /\ getter.res = Returned(NilOrder, Wrap("failed to get order", getter.repoRes.err))
  /\ getter.prev.valid
  /\ getter.prev.res.err = NewErr(ErrOrderNotFound)

\* ------------------------------------------------ claims about the consumer
\* C20: CommitMessages is only called for a message whose payload was
\* unmarshalled and handled, and the committed position of the group is
\* never past a message that was not.
C20_CommitOnlyAfterSuccess ==
  /\ \A i \in DOMAIN commitCalls :
       commitCalls[i] \in handled /\ commitCalls[i] \notin undecodable
  /\ \A off \in 1..(groupOffset - 1) : off \in handled

\* the offsets FetchMessage returned in run n of the consumer process
DeliveredIn(n) ==
  {deliveries[i].offset : i \in {j \in DOMAIN deliveries : deliveries[j].run = n}}

\* a message delivered in an earlier run whose position the group had not
\* committed when the running process started is next in line again: it
\* was delivered in this run, or the reader has not passed it
UncommittedComesAgain ==
  \A i \in DOMAIN deliveries :
    LET d == deliveries[i] IN
    (d.run < restarts /\ d.offset >= startOffset) =>
      \/ d.offset \in DeliveredIn(restarts)
      \/ fetchPos <= d.offset

\* a step that delivers a message delivers one at or after the committed
\* position of the group
DeliversOnlyUncommitted ==
  deliveries' # deliveries =>
    /\ Len(deliveries') = Len(deliveries) + 1
    /\ deliveries'[Len(deliveries')].offset >= groupOffset
    /\ deliveries'[Len(deliveries')].offset = cmsg'

\* C21: a message that was fetched and whose position was not committed
\* when the consumer stopped is delivered again to the group after the
\* restart, before any later message; a message whose position is committed
\* is never delivered again.
C21_RedeliveryAfterRestart ==
  /\ []UncommittedComesAgain
  /\ [][DeliversOnlyUncommitted]_vars
  /\ [](\A off \in 1..(groupOffset - 1) : fetchPos > off)

\* the process stopped after message 1 was handled and before its position
\* was committed, and the restarted process was handed message 1 again
C21_Witness ==
  /\ restarts = 1
  /\ 1 \in handled
  /\ groupOffset = 1
  /\ \E i, j \in DOMAIN deliveries :
       /\ deliveries[i].run = 0 /\ deliveries[i].offset = 1
       /\ deliveries[j].run = 1 /\ deliveries[j].offset = 1

\* the loop takes its step after FetchMessage returned a message whose
\* payload cannot be unmarshalled
SkipsMalformed ==
  (/\ cpc = "unmarshal"
   /\ JsonUnmarshal(topic[cmsg].Value).err # NilErr
   /\ cpc' \notin {"unmarshal", "crashed"}) =>
    /\ cpc' = "commit"
    /\ cmsg \in undecodable'
    /\ handled' = handled
    /\ fetchPos' = cmsg + 1
    /\ deliveries' = deliveries

\* inside one run of the process the reader hands out every offset at most
\* once, in increasing order
NoRetryInsideRun ==
  \A i, j \in DOMAIN deliveries :
    (i < j /\ deliveries[i].run = deliveries[j].run) =>
      deliveries[i].offset < deliveries[j].offset

\* C22: a message whose payload cannot be deserialized does not stop the
\* consumer: the loop records the failure, goes on (through the commit) to
\* the fetch of the next offset, never handles or fetches that message
\* again while it runs, and StartConsuming only ever returns because its
\* context was cancelled.
C22_MalformedMessageIsSkipped ==
  /\ [][SkipsMalformed]_vars
  /\ []NoRetryInsideRun
  /\ [](cpc \in {"stopped", "fetchCancelled"} => cancelled)

\* the first message was malformed and the same run of the loop went on to
\* fetch and handle the second
C22_Witness ==
  /\ Len(topic) = 2
  /\ 1 \in undecodable
  /\ 2 \in handled
  /\ restarts = 0
  /\ \E i, j \in DOMAIN deliveries :
       /\ i < j
       /\ deliveries[i].run = 0 /\ deliveries[i].offset = 1
       /\ deliveries[j].run = 0 /\ deliveries[j].offset = 2

\* what the loop has handled and committed, and what the reader handed out
Progress == <<cmsg, fetchPos, groupOffset, handled, undecodable, commitCalls, deliveries>>

\* FetchMessage returns without a message while the context is cancelled:
\* StartConsuming returns at once
ExitsOnCancelledFetch ==
  (/\ cpc = "fetch"
   /\ cancelled
   /\ deliveries' = deliveries
   /\ cpc' \notin {"fetch", "crashed"}) =>
    /\ cpc' = "fetchCancelled"
    /\ Progress' = Progress

\* after StartConsuming returned, that run handles and commits nothing
NothingAfterExit ==
  (cpc \in {"stopped", "fetchCancelled"} /\ restarts' = restarts) =>
    /\ cpc' = cpc
    /\ Progress' = Progress

\* C23: when the fetch is interrupted by the cancellation, the loop exits
\* without handling or committing anything in that iteration, and nothing
\* is processed after it.
C23_CancelledFetchExitsCleanly ==
  /\ [][ExitsOnCancelledFetch]_vars
  /\ [][NothingAfterExit]_vars
  /\ [](cpc = "fetchCancelled" => cancelled)

\* the loop returned from a cancelled fetch while a message it had not
\* fetched was waiting on the topic, after it had handled and committed
\* the first message
C23_Witness ==
  /\ cpc = "fetchCancelled"
  /\ cancelled
  /\ restarts = 0
  /\ handled = {1}
  /\ commitCalls = <<1>>
  /\ Len(topic) = 2
  /\ fetchPos = 2

\* ------------------------------------------------ claims about the producer
\* C24: messages published with the same key are on the same partition of
\* the topic.
C24_SameKeySamePartition ==
  \A i, j \in DOMAIN topic :
    topic[i].Key = topic[j].Key => topic[i].Partition = topic[j].Partition

\* ------------------------------------------------- claims about the event
\* the committed row of table orders the message at offset i is about
RowOfMessage(i) == {row \in dbOrders : UuidString(row.id) = topic[i].Key}

\* C25: the event published for an order carries the order's identifier,
\* customerId, totalPrice and status as they were persisted; its status is
\* pending and its key is the string of the order identifier.
C25_EventCarriesPersistedOrder ==
  \A i \in DOMAIN topic :
    /\ RowOfMessage(i) # {}
    /\ \A row \in RowOfMessage(i) :
         /\ topic[i].Value.order_id = UuidString(row.id)
         /\ topic[i].Value.customer_id = row.customer_id
         /\ topic[i].Value.total_price = row.total_price
         /\ topic[i].Value.status = row.status
         /\ topic[i].Value.status = OrderStatusPending

\* ------------------------------------------------ claims about POST /orders
\* the request or the domain validation fails: the payload is malformed,
\* has no customer, no items, an item without a product, a quantity <= 0
\* or a unit price <= 0, or NewOrder rejects its items
RequestInvalid(req) ==
  \/ req.malformed
  \/ req.CustomerID = ""
  \/ Len(req.Items) = 0
  \/ \E i \in DOMAIN req.Items :
       \/ req.Items[i].ProductID = ""
       \/ req.Items[i].Quantity <= 0
       \/ req.Items[i].UnitPrice <= 0
  \/ NewOrder(req.CustomerID, req.Items, UuidNil, 0).err # NilErr

\* the request got as far as the Store or the broker
ReachedStoreOrBroker(r) ==
  \/ repoCalls[r] > 0
  \/ publishCalls[r] > 0
  \/ tx[r] # NoTx
  \/ OrderRowsOf(OrderUuid(r)) # {}
  \/ ItemRowsOf(OrderUuid(r)) # {}
  \/ MsgsFor(OrderUuid(r)) # {}

\* C26: POST /orders answers 201 with the created order exactly when
\* CreateOrder of the pipeline succeeded (also when only the publish
\* failed), 400 exactly when the request or the domain validation fails,
\* and 500 exactly when persistence failed; a request answered 400 never
\* reached the Store or the broker.
C26_CreateOrderStatusCodes ==
  \A r \in Reqs :
    pc[r] = "responded" =>
      LET h == http[r] IN
      /\ h.status \in {201, 400, 500}
      /\ h.status = 201 <=> (result[r].returned /\ result[r].err = NilErr)
      /\ h.status = 201 =>
           /\ h.body = NewOrderResponse(order[r])
           /\ result[r].order = order[r]
           /\ Persisted(r)
      /\ (repoCalls[r] > 0 /\ repoErr[r] = NilErr /\ pubErr[r] # NilErr) => h.status = 201
      /\ h.status = 400 <=> RequestInvalid(h.req)
      /\ h.status = 400 => ~ReachedStoreOrBroker(r)
      /\ h.status = 500 <=> (repoCalls[r] > 0 /\ repoErr[r] # NilErr)

\* one request was answered 201 although its publish failed, and another
\* was answered 400 for a unit price of zero
C26_Witness ==
  \E r, q \in Reqs :
    /\ pc[r] = "responded" /\ http[r].status = 201 /\ pubErr[r] # NilErr
    /\ pc[q] = "responded" /\ http[q].status = 400
    /\ http[q].req.Items = <<Item("prod1", 1, 0)>>
    /\ http[q].body = [Error |-> "Item unit price must be positive"]

\* ------------------------------------ claims about status transitions
\* a step in which updater u makes its call of UpdateOrderStatus
UpdateStep(u) == updater[u].pc = "idle" /\ updater'[u].pc = "done"

\* C27: UpdateOrderStatus validates no transition: for an existing order
\* in any status and any of the five target statuses the call returns nil
\* (unless the driver failed) and the status of the order becomes the
\* target; ErrInvalidOrderStatusTransition is never returned.
C27_NoTransitionValidation ==
  /\ [](\A u \in Upds : ~ErrorsIs(updater[u].err, ErrInvalidOrderStatusTransition))
  /\ [][\A u \in Upds :
          (UpdateStep(u) /\ OrderRowsOf(updater'[u].id) # {}) =>
            /\ updater'[u].status \in OrderStatuses
            /\ \A o \in OrderRowsOf(updater'[u].id) : o.status \in OrderStatuses
            /\ updater'[u].err = NilErr \/ ErrorsIs(updater'[u].err, DriverErr)
            /\ updater'[u].err = NilErr =>
                 \A o \in dbOrders' : o.id = updater'[u].id => o.status = updater'[u].status
     ]_vars

\* the order was set to completed by one call and then back to pending by
\* another, both returning nil
C27_Witness ==
  \E u, v \in Upds :
    /\ u # v
    /\ updater[u].pc = "done" /\ updater[u].err = NilErr
    /\ updater[v].pc = "done" /\ updater[v].err = NilErr
    /\ updater[u].id = 1 /\ updater[v].id = 1
    /\ updater[u].status = OrderStatusCompleted
    /\ updater[v].status = OrderStatusPending
    /\ \E o \in dbOrders : o.id = 1 /\ o.status = OrderStatusPending /\ o.updated_at = 1

\* C28: two UpdateOrderStatus calls on the same existing order both return
\* nil (unless the driver failed); the update that is applied last decides
\* the stored status, whatever the other one wrote, so that after both,
\* and no third call on the order, the status is the target of one of the
\* two.
C28_LastWriterWins ==
  /\ [](\A u, v \in Upds :
          (/\ u # v
           /\ updater[u].pc = "done" /\ updater[v].pc = "done"
           /\ updater[u].id = updater[v].id
           /\ OrderRowsOf(updater[u].id) # {}
           /\ ~ErrorsIs(updater[u].err, DriverErr)
           /\ ~ErrorsIs(updater[v].err, DriverErr)) =>
            /\ updater[u].err = NilErr /\ updater[v].err = NilErr
            /\ (\A w \in Upds \ {u, v} :
                  updater[w].pc = "idle" \/ updater[w].id # updater[u].id) =>
                 \A o \in OrderRowsOf(updater[u].id) :
                   o.status \in {updater[u].status, updater[v].status})
  /\ [][\A u, v \in Upds :
          (/\ u # v
           /\ UpdateStep(v)
           /\ updater[u].pc = "done" /\ updater[u].err = NilErr
           /\ updater'[v].id = updater[u].id
           /\ updater'[v].err = NilErr) =>
            \A o \in dbOrders' : o.id = updater'[v].id => o.status = updater'[v].status
     ]_vars

\* both calls on order 1 returned nil with different targets and the
\* stored status is the target of one of them, not the status the order
\* was created with
C28_Witness ==
  \E u, v \in Upds :
    /\ u # v
    /\ updater[u].pc = "done" /\ updater[u].err = NilErr
    /\ updater[v].pc = "done" /\ updater[v].err = NilErr
    /\ updater[u].id = 1 /\ updater[v].id = 1
    /\ updater[u].status = OrderStatusProcessing
    /\ updater[v].status = OrderStatusCancelled
    /\ \E o \in dbOrders : o.id = 1 /\ o.status = OrderStatusCancelled

\* ------------------------------------------- claims about what stays fixed
\* the fields of an order row that are fixed once the order is persisted
FixedFields(o) == <<o.id, o.customer_id, o.total_price, o.created_at>>

\* every persisted order keeps its identifier, customer, total price and
\* creation time, and its item rows stay exactly the ones it had
PersistedOrdersKeepContents ==
  /\ \A o \in dbOrders :
       \E n \in dbOrders' : FixedFields(n) = FixedFields(o)
  /\ \A o \in dbOrders :
       {it \in dbItems' : it.order_id = o.id} = {it \in dbItems : it.order_id = o.id}
  /\ \A o, n \in dbOrders' : o.id = n.id => o = n

\* an update changes at most status and updated_at of the rows of the
\* identifier it was called with, and no other row of either table
UpdateTouchesOnlyStatus ==
  \A u \in Upds :
    UpdateStep(u) =>
      /\ dbItems' = dbItems
      /\ \A o \in dbOrders : o.id # updater'[u].id => o \in dbOrders'
      /\ \A n \in dbOrders' :
           \E o \in dbOrders :
             /\ FixedFields(n) = FixedFields(o)
             /\ o.id # updater'[u].id => n = o

\* a step of a create leaves every row of the two tables as it is
CreateKeepsExistingRows ==
  (\A u \in Upds : ~UpdateStep(u)) =>
    /\ \A o \in dbOrders : o \in dbOrders'
    /\ \A it \in dbItems : it \in dbItems'

\* C29: once an order is persisted no store operation changes its id,
\* customerId, items, totalPrice or createdAt: an update changes only
\* status and updated_at of the order it addresses and leaves every other
\* order and all item rows unchanged, and a create of another order leaves
\* the existing orders unchanged.
C29_OrderImmutableButStatus ==
  [][/\ PersistedOrdersKeepContents
     /\ UpdateTouchesOnlyStatus
     /\ CreateKeepsExistingRows]_vars

\* the store holds two orders with their items; the update of order 1
\* returned nil and changed its status and updated_at, and order 2, created
\* by another caller, is as it was written
C29_Witness ==
  /\ updater[FrameUpdater].pc = "done"
  /\ updater[FrameUpdater].err = NilErr
  /\ updater[FrameUpdater].id = 1
  /\ \E o \in dbOrders :
       /\ o.id = 1
       /\ o.status = OrderStatusCompleted
       /\ o.updated_at > o.created_at
  /\ \E r \in Reqs \ {1} :
       /\ pc[r] = "returned"
       /\ repoErr[r] = NilErr
       /\ order[r].ID = 2
       /\ Persisted(r)
  /\ ItemRowsOf(1) # {}
  /\ ItemRowsOf(2) # {}

\* --------------------------------------- claims about atomic visibility
\* the items a read of the order of request r returns when it sees every
\* item row the create of r wrote
ItemsWrittenBy(r) ==
  [k \in DOMAIN order[r].Items |->
     ScanItem(ItemRow(ItemUuid(r, k), order[r].ID, order[r].Items[k]))]

\* the create of request r is committed and what is visible of the order
\* is exactly what it wrote: its order row, and its item rows and no other
VisibleWhole(r) ==
  /\ pc[r] = "returned"
  /\ repoErr[r] = NilErr
  /\ Persisted(r)
  /\ ItemRowsOf(order[r].ID) = CommittedItems(r, order[r])

\* C30: a GetOrderByID that runs next to or after a create of the same
\* identifier returns ErrOrderNotFound or the order with all of its items
\* (or fails in the driver), never an order with some or none of them:
\* whenever the order row is visible, so are all the item rows of the
\* create that wrote it, also between the two queries of the read.
C30_CreateVisibleAtomically ==
  /\ \A o \in dbOrders : \E r \in Reqs : order[r].ID = o.id /\ VisibleWhole(r)
  /\ getter.pc = "queryItems" =>
       \E r \in Reqs : order[r].ID = getter.id /\ VisibleWhole(r)
  /\ (getter.pc = "done" /\ getter.repoRes.err = NilErr) =>
       \E r \in Reqs :
         /\ order[r].ID = getter.id
         /\ VisibleWhole(r)
         /\ Len(getter.repoRes.order.Items) = Len(order[r].Items)
         /\ BagOf(getter.repoRes.order.Items) = BagOf(ItemsWrittenBy(r))
  /\ (getter.pc = "done" /\ getter.repoRes.err # NilErr) =>
       \/ getter.repoRes.err = NewErr(ErrOrderNotFound)
       \/ ErrorsIs(getter.repoRes.err, DriverErr)

\* a read returned the order with both of its items while another create of
\* the same identifier was still inside its transaction, after an earlier
\* read of the identifier had returned ErrOrderNotFound
C30_Witness ==
  /\ getter.pc = "done"
  /\ getter.repoRes.err = NilErr
  /\ Len(getter.repoRes.order.Items) = 2
  /\ getter.prev.valid
  /\ getter.prev.id = getter.id
  /\ getter.prev.res.err = NewErr(ErrOrderNotFound)
  /\ \E r \in Reqs :
       /\ order[r].ID = getter.id
       /\ tx[r].open
       /\ pc[r] = "insertOrder"

\* ------------------------------------ claims about the caller's context
\* request r is inside the store's CreateOrder
InStore(r) == pc[r] \in {"begin", "insertOrder", "insertItems"}

\* the store's CreateOrder of request r took a step
StoreStep(r) ==
  InStore(r) /\ (pc'[r] # pc[r] \/ itemIdx'[r] # itemIdx[r] \/ tx'[r] # tx[r])

\* err is the error of the context of request r, alone or wrapped, or
\* sql.ErrTxDone
ContextFailure(r, err) ==
  \/ ctxErr[r] # NilErr /\ ErrorsIs(err, ctxErr[r][1])
  \/ err = NewErr(SqlErrTxDone)

\* the next thing the store does under a context that is done, wherever it
\* is (begin, order insert, item insert, commit), is to return a failure
\* that comes from the context, with the transaction dropped and nothing
\* made visible
DoneContextEndsCreate ==
  [][\A r \in Reqs :
       (StoreStep(r) /\ ctxErr[r] # NilErr) =>
         /\ pc'[r] = "returned"
         /\ ContextFailure(r, repoErr'[r])
         /\ tx'[r] = NoTx
         /\ dbOrders' = dbOrders /\ dbItems' = dbItems
         /\ topic' = topic
    ]_vars

\* a request whose context is done inside the store, or whose store call
\* failed because of the context, has no visible row and no event, the
\* publish is never called for it, and CreateOrder returns no order and the
\* store's error wrapped
DoneContextLeavesNothing ==
  \A r \in Reqs :
    (\/ InStore(r) /\ ctxErr[r] # NilErr
     \/ PersistFailed(r) /\ ContextFailure(r, repoErr[r])) =>
      /\ OrderRowsOf(order[r].ID) = {}
      /\ ItemRowsOf(order[r].ID) = {}
      /\ publishCalls[r] = 0
      /\ MsgsFor(order[r].ID) = {}
      /\ pc[r] # "publish"
      /\ pc[r] = "done" =>
           /\ result[r].order = NilOrder
           /\ result[r].err = Wrap("service: failed to persist order", repoErr[r])

\* C31: when the context of the caller is done during the store's create
\* (before the order insert, between item inserts, before the commit), the
\* create returns a failure, the transaction is rolled back, no row of the
\* order becomes visible and no event is published.
C31_DoneContextRollsBack == []DoneContextLeavesNothing /\ DoneContextEndsCreate

\* a request whose context ended between its two item inserts has returned
\* a failure, while another request has committed and published
C31_Witness ==
  \E r \in Reqs :
    /\ pc[r] = "done"
    /\ repoErr[r] = Wrap("failed to insert order item", ctxErr[r])
    /\ ctxErr[r] # NilErr
    /\ itemIdx[r] = 2
    /\ result[r].order = NilOrder
    /\ OrderRowsOf(order[r].ID) = {}
    /\ \E q \in Reqs \ {r} : Persisted(q) /\ MsgsFor(order[q].ID) # {}

\* the context of request r was done when its publish started: the store
\* had committed, and the context ended before PublishMessage was called
DoneBeforePublish(r) ==
  pc[r] = "done" /\ PersistSucceeded(r) /\ ctxErr[r] # NilErr

\* C32 as stated: a publish that starts or runs under a caller's context
\* that is done is given up, no message of the order is written, and
\* CreateOrder returns the order and a nil error.
C32_PublishAbandonedAtDeadline ==
  \A r \in Reqs :
    DoneBeforePublish(r) =>
      /\ MsgsFor(order[r].ID) = {}
      /\ result[r] = Returned(order[r], NilErr)

\* C32: the publish runs under a context of its own (background, five
\* seconds): it never fails with the caller's cancellation, it fails only
\* with a write error or with its own deadline, nothing is written when it
\* fails, and CreateOrder returns the persisted order and a nil error also
\* when the caller's context is done.
C32_PublishIgnoresCallerContext ==
  \A r \in Reqs :
    /\ ~ErrorsIs(pubErr[r], ContextCanceled)
    /\ pubErr[r] \in
         {NilErr,
          Wrap("failed to write message to Kafka", NewErr(BrokerErr)),
          Wrap("failed to write message to Kafka", NewErr(ContextDeadlineExceeded))}
    /\ (pc[r] = "done" /\ PersistSucceeded(r)) =>
         /\ result[r] = Returned(order[r], NilErr)
         /\ Persisted(r)
         /\ Cardinality(MsgsFor(order[r].ID)) = (IF pubErr[r] = NilErr THEN 1 ELSE 0)

\* the caller cancelled after the commit and before the publish, and the
\* message of the order was written all the same
C32_Witness ==
  \E r \in Reqs :
    /\ DoneBeforePublish(r)
    /\ ctxErr[r] = NewErr(ContextCanceled)
    /\ pubErr[r] = NilErr
    /\ MsgsFor(order[r].ID) # {}
    /\ result[r] = Returned(order[r], NilErr)

\* ---------------------------------------- claims about the consuming loop
\* FetchMessage returned an error while the context was not cancelled
FetchFailed == cpc = "fetch" /\ ~cancelled /\ fetchErrs' = fetchErrs + 1

\* a failed fetch leads to the backoff, whatever the number of failures
\* before it, and neither handles nor commits anything
FetchErrorBacksOff ==
  FetchFailed =>
    /\ cpc' = "backoff"
    /\ Progress' = Progress

\* the backoff goes back to the head of the loop, and the head of the loop
\* to the fetch unless the context is cancelled (the process may also be
\* killed)
BackoffFetchesAgain ==
  /\ (cpc = "backoff" /\ cpc' # cpc) => cpc' \in {"select", "crashed"} /\ Progress' = Progress
  /\ (cpc = "select" /\ ~cancelled /\ cpc' # cpc) => cpc' \in {"fetch", "crashed"}

\* C33: a fetch error that does not come from the cancellation never ends
\* the loop and causes no handle and no commit: the loop sleeps and fetches
\* again, after the first error as after any later one, and StartConsuming
\* returns only when its context is cancelled.
C33_FetchErrorIsRetried ==
  /\ [][FetchErrorBacksOff]_vars
  /\ [][BackoffFetchesAgain]_vars
  /\ [](cpc \in {"stopped", "fetchCancelled"} => cancelled)

\* two fetches in a row failed before any message was delivered, and the
\* loop then fetched the first message, without a cancellation
C33_Witness ==
  /\ fetchErrs = 2
  /\ ~cancelled
  /\ restarts = 0
  /\ cpc = "unmarshal"
  /\ deliveries = <<[run |-> 0, offset |-> 1, ctxDone |-> FALSE]>>
  /\ commitCalls = <<>>

\* the message the loop holds was returned by FetchMessage before the
\* context was cancelled
FetchedBeforeCancel ==
  /\ cmsg # 0
  /\ deliveries # <<>>
  /\ ~deliveries[Len(deliveries)].ctxDone

\* C34 as stated: once the context is cancelled, CommitMessages is not
\* called for a message that was fetched before the cancellation and whose
\* handling or commit was still to come.
C34_NoCommitAfterCancellation ==
  [][(cpc \in {"unmarshal", "commit"} /\ cancelled /\ FetchedBeforeCancel) =>
       commitCalls' = commitCalls]_vars

\* the control state of the loop at position c of StartConsuming: Polling is
\* the head of the loop, the fetch and the backoff, Handling the unmarshal,
\* Committing the commit call, ShuttingDown either return; "Killed" is the
\* process ended from outside
ControlState(c) ==
  CASE c = "idle" -> "Idle"
    [] c \in {"select", "fetch", "backoff"} -> "Polling"
    [] c = "unmarshal" -> "Handling"
    [] c = "commit" -> "Committing"
    [] c \in {"stopped", "fetchCancelled"} -> "ShuttingDown"
    [] OTHER -> "Killed"

ControlEdges ==
  { <<"Idle", "Polling">>, <<"Polling", "Handling">>, <<"Handling", "Committing">>,
    <<"Committing", "Polling">>, <<"Polling", "ShuttingDown">>, <<"ShuttingDown", "Idle">> }

\* every change of the control state is one of the edges, the kill of the
\* process and the start after it left aside
FollowsControlEdges ==
  (/\ ControlState(cpc') # ControlState(cpc)
   /\ ControlState(cpc) # "Killed" /\ ControlState(cpc') # "Killed") =>
    <<ControlState(cpc), ControlState(cpc')>> \in ControlEdges

\* CommitMessages is called only in Committing, once, with the message
\* that went through Handling just before
CommitsWhatWasHandled ==
  commitCalls' # commitCalls =>
    /\ ControlState(cpc) = "Committing" /\ ControlState(cpc') = "Polling"
    /\ commitCalls' = Append(commitCalls, cmsg)
    /\ cmsg \in handled \cup undecodable
    /\ deliveries # <<>> /\ deliveries[Len(deliveries)].offset = cmsg

\* a message is handed out only in Polling, and only when the commit call
\* for the message before it, if the loop had one, has returned
FetchesAfterCommitReturned ==
  deliveries' # deliveries =>
    /\ ControlState(cpc) = "Polling" /\ ControlState(cpc') = "Handling"
    /\ Len(deliveries') = Len(deliveries) + 1
    /\ cmsg # 0 => (commitCalls # <<>> /\ commitCalls[Len(commitCalls)] = cmsg)

\* the loop is left from Polling, under a cancelled context
LeavesOnlyOnCancel ==
  (ControlState(cpc') = "ShuttingDown" /\ ControlState(cpc) # "ShuttingDown") =>
    ControlState(cpc) = "Polling" /\ cancelled

\* C35: the control state of the loop follows Idle -> Polling -> Handling ->
\* Committing -> Polling and Polling -> ShuttingDown -> Idle only; one
\* message is processed at a time, the commit is issued for the message
\* just handled, the next message is fetched after that commit call
\* returned, and the loop is left only from Polling under a cancelled
\* context.
C35_LoopFollowsStateMachine ==
  /\ [][FollowsControlEdges]_vars
  /\ [][CommitsWhatWasHandled]_vars
  /\ [][FetchesAfterCommitReturned]_vars
  /\ [][LeavesOnlyOnCancel]_vars

\* the loop went twice round Polling, Handling, Committing, the first time
\* with a malformed message, and was then left on a cancellation
C35_Witness ==
  /\ restarts = 0
  /\ ControlState(cpc) = "ShuttingDown"
  /\ commitCalls = <<1, 2>>
  /\ 1 \in undecodable
  /\ 2 \in handled

\* StartConsuming has returned
StartConsumingReturned == cpc \in {"stopped", "fetchCancelled"}

\* the head of the loop under a cancelled context returns
SelectObservesCancel ==
  (cpc = "select" /\ cancelled /\ cpc' # cpc) => cpc' = "stopped" /\ Progress' = Progress

\* a message handed out under a cancelled context is the last one of its
\* run: the loop observes the cancellation at the next head of the loop
NoHandlingAfterObserved ==
  \A i, j \in DOMAIN deliveries :
    (i < j /\ deliveries[i].run = deliveries[j].run) => ~deliveries[i].ctxDone

\* C36: after the cancellation the loop starts no handling once it has
\* observed the signal, and StartConsuming eventually returns, wherever the
\* loop was when the signal came (blocked in the fetch, sleeping after a
\* fetch error, handling, committing).
C36_CancellationTerminatesLoop ==
  /\ [][SelectObservesCancel]_vars
  /\ [][ExitsOnCancelledFetch]_vars
  /\ []NoHandlingAfterObserved
  /\ cancelled ~> StartConsumingReturned

\* the loop was blocked in a fetch with nothing left to fetch, after a
\* message and a failed fetch, when the cancellation made it return
C36_Witness ==
  /\ cpc = "fetchCancelled"
  /\ fetchPos > Len(topic)
  /\ commitCalls # <<>>
  /\ fetchErrs = MaxFetchErrs

\* ------------------------------------------ claims about the stored rows
\* the identifiers of the visible orders
PersistedIds == {o.id : o \in dbOrders}

\* every visible order has an item row, and every visible item row belongs
\* to a visible order
OrdersAndItemsMatch ==
  /\ \A o \in dbOrders : ItemRowsOf(o.id) # {}
  /\ \A it \in dbItems : OrderRowsOf(it.order_id) # {}

\* no step removes a visible order or a visible item row
NothingIsRemoved ==
  /\ PersistedIds \subseteq PersistedIds'
  /\ dbItems \subseteq dbItems'

\* C37: in a store written through the pipeline, every visible order has at
\* least one item row, every item row references a visible order row, and
\* the set of persisted order identifiers only grows.
C37_StoreKeepsOrdersWhole == []OrdersAndItemsMatch /\ [][NothingIsRemoved]_vars

\* an order with two item rows is visible, while a request with an empty
\* item list was turned down
C37_Witness ==
  /\ Cardinality(dbOrders) >= 1
  /\ \E o \in dbOrders : Cardinality(ItemRowsOf(o.id)) = 2
  /\ \E r \in Reqs : pc[r] = "done" /\ ErrorsIs(result[r].err, ErrNoOrderItems)

\* the offsets of the topic of the largest size
Offsets == 1..MaxMsgs

\* the context is never cancelled
NoCancellation == []~cancelled

\* no commit call fails: whenever CommitMessages was called, the position
\* of the group is past the message of the last call
CommitsSucceed ==
  [](commitCalls # <<>> => groupOffset > commitCalls[Len(commitCalls)])

\* message m, if the topic has it, was handed out, went through the
\* handling and had CommitMessages called for it
WentThroughLoop(m) ==
  m <= Len(topic) =>
    /\ \E i \in DOMAIN deliveries : deliveries[i].offset = m
    /\ m \in handled \cup undecodable
    /\ \E i \in DOMAIN commitCalls : commitCalls[i] = m

\* C38: without a cancellation, every message of the topic is eventually
\* fetched, handled and given to CommitMessages, also after a malformed
\* message and after failed fetches; when no commit call fails, the
\* position of the group eventually passes every message.
C38_EveryMessageIsConsumed ==
  /\ NoCancellation => \A m \in Offsets : <>WentThroughLoop(m)
  /\ (NoCancellation /\ CommitsSucceed) =>
       \A m \in Offsets : <>(m <= Len(topic) => groupOffset > m)

\* the second message was committed after a malformed first message and
\* after fetches that failed, without a cancellation
C38_Witness ==
  /\ ~cancelled
  /\ Len(topic) = 2
  /\ 1 \in undecodable
  /\ 2 \in handled
  /\ fetchErrs = MaxFetchErrs
  /\ groupOffset = 3

\* CommitMessages was called and failed: the position did not move
CommitFailed == commitCalls' # commitCalls /\ groupOffset' = groupOffset

\* a failed commit leads back to the head of the loop with the reader at
\* the next message; nothing else changes
FailedCommitGoesOn ==
  CommitFailed =>
    /\ cpc = "commit" /\ cpc' = "select"
    /\ commitCalls' = Append(commitCalls, cmsg)
    /\ fetchPos' = cmsg + 1
    /\ <<cmsg, handled, undecodable, deliveries>>' = <<cmsg, handled, undecodable, deliveries>>

\* the position of the group moves only when a commit call succeeds, and
\* then past the message of that call and every message before it
PositionMovesOnSuccessOnly ==
  groupOffset' # groupOffset =>
    /\ cpc = "commit"
    /\ groupOffset' = cmsg + 1
    /\ groupOffset' > groupOffset

\* a message whose position is passed had a commit call for it or for a
\* later message
CommittedWasCalled ==
  \A m \in DOMAIN topic :
    groupOffset > m => \E i \in DOMAIN commitCalls : commitCalls[i] >= m

\* C39: a failed commit does not end the loop: the loop goes on to the next
\* message, does not handle the message again in that run, and the position
\* of the message stays uncommitted until a later commit call succeeds.
C39_FailedCommitIsNotFatal ==
  /\ [][FailedCommitGoesOn]_vars
  /\ [][PositionMovesOnSuccessOnly]_vars
  /\ []NoRetryInsideRun
  /\ []CommittedWasCalled
  /\ [](cpc \in {"stopped", "fetchCancelled"} => cancelled)

\* the commit of the first message failed and the loop has fetched the
\* second message, the position still at the first
C39_Witness ==
  /\ restarts = 0
  /\ ~cancelled
  /\ commitCalls = <<1>>
  /\ groupOffset = 1
  /\ cmsg = 2
  /\ cpc = "unmarshal"

\* ------------------------------------ claims about the order of the checks
\* the positions of the items NewOrder turns down: quantity <= 0, or a unit
\* price that fails the check of the code (order.go:42, negative)
InvalidItems(items) ==
  {i \in DOMAIN items : items[i].Quantity <= 0 \/ items[i].UnitPrice < 0}

====
